---- MODULE Spec2Model ----
(***************************************************************************)
(* Model of the qatgo/qatzip streaming adapter: the Writer (compress.go),  *)
(* the Reader (reader source, src/unnamed/part_002) and the QzBinding      *)
(* engine contract they drive (bindings.go, qatzip_internal.c).            *)
(*                                                                         *)
(* Plain bytes are the positive integers 1..MaxTotal: the k-th byte passed *)
(* to Write in a session is the integer k, so loss, duplication and        *)
(* reordering of input are visible in the data (the adapter never inspects *)
(* byte values).  Compressed bytes are tokens <= 0: every successful       *)
(* engine Compress call emits one self-contained member                    *)
(*     <<HDR(alg)>> \o consumed bytes \o <<FTR(last)>>.                    *)
(* Buffer lengths are scaled down; the scaled sizes are bounds.            *)
(***************************************************************************)
EXTENDS Integers, Sequences, FiniteSets, TLC

\* ---------------------------------------------------------------- bounds
MaxWrite == 3            \* longest payload of one Write call
MaxTotal == 4            \* bytes passed to Write per session
MaxScript == 2           \* scripted engine responses per call of the API
MaxGrowth == 4           \* "buf" is scripted only while bufferGrowth < MaxGrowth
MaxApplies == 1          \* Apply calls per object
MaxBatch == 2            \* options per Apply call
MaxRead == 2             \* longest buffer passed to one Read call
MaxStream == 12          \* more bytes than any compressed stream holds
MinBufferLength == 2     \* params.go MinBufferLength, scaled
MinBounceBufferLength == 2 \* params.go MinBounceBufferLength, scaled
MaxAnyApplies == 2       \* Apply calls per object that draw on every option

\* ------------------------------------------------------- params.go enums
DEFLATE == 0
LZ4 == 1
ZSTD == 2
Algorithms == {DEFLATE, LZ4, ZSTD}

Reserve == 0
Bounce == 1
Last == 2
NoLast == 3
InputBufferModes == {Reserve, Bounce, Last, NoLast}

\* QzDirection_T (the names Compress and Decompress are taken by the engine
\* calls)
DirCompress == 0
DirDecompress == 1
DirBoth == 2
Directions == {DirCompress, DirDecompress, DirBoth}

DefaultCompression == 1
DefaultBufferLength == MinBufferLength + 2
DefaultBufferGrowth == MinBufferLength + 1
DefaultBounceBufferLength == MinBounceBufferLength

defaultParams ==
  [ Level              |-> DefaultCompression,
    Algorithm          |-> DEFLATE,
    OutputBufLength    |-> DefaultBufferLength,
    InputBufLength     |-> DefaultBufferLength,
    BufferGrowth       |-> DefaultBufferGrowth,
    BounceBufferLength |-> DefaultBounceBufferLength,
    InputBufferMode    |-> Reserve,
    Direction          |-> DirBoth ]

\* ------------------------------------------------------------- errors.go
Nil == "nil"
ErrFail == "ErrFail"
ErrBuffer == "ErrBuffer"
ErrData == "ErrData"
ErrTimeout == "ErrTimeout"
ErrNone == "ErrNone"
ErrNoMem == "ErrNoMem"
ErrNoSwHw == "ErrNoSwHw"
ErrUnsupportedFmt == "ErrUnsupportedFmt"
ErrWriterClosed == "ErrWriterClosed"
ErrEmptyBuffer == "ErrEmptyBuffer"
ErrInputBufferMode == "ErrInputBufferMode"
ErrParamAlgorithm == "ErrParamAlgorithm"
ErrApplyPostInit == "ErrApplyPostInit"
ErrApplyInvalidType == "ErrApplyInvalidType"
ErrParams == "ErrParams"
ErrParamCompressionLevel == "ErrParamCompressionLevel"
ErrParamDirection == "ErrParamDirection"
ErrParamOutputBufLength == "ErrParamOutputBufLength"
ErrParamInputBufLength == "ErrParamInputBufLength"
ErrParamBufferGrowth == "ErrParamBufferGrowth"
ErrParamBounceBufferLength == "ErrParamBounceBufferLength"
\* errors of the collaborators
ErrShortWrite == "io.ErrShortWrite"
EOF == "io.EOF"
ErrSink == "sink error"          \* error returned by the downstream io.Writer
ErrUpstream == "upstream error"  \* non-EOF error of the upstream io.Reader

\* ------------------------------------------------------ compressed tokens
HDR(alg) == 0 - (alg + 1)
FTR(last) == IF last THEN 0 - 10 ELSE 0 - 11
BAD == 0 - 99                    \* a corrupted magic byte

Min(a, b) == IF a < b THEN a ELSE b
Bytes(from, n) == [i \in 1..n |-> from + i]   \* the n input bytes after `from`
Drop(s, n) == SubSeq(s, n + 1, Len(s))
Take(s, n) == SubSeq(s, 1, n)

NilQ == [nil |-> TRUE, active |-> FALSE, closed |-> FALSE, last |-> FALSE]
\* Perf: the byte counters count bytes; a time counter is 0 until an
\* interval has been added to it and 1 from then on
NilPerf == [nil |-> TRUE, BytesIn |-> 0, BytesOut |-> 0,
            ReadTimeNS |-> 0, WriteTimeNS |-> 0, EngineTimeNS |-> 0, CopyTimeNS |-> 0]
NewPerf == [nil |-> FALSE, BytesIn |-> 0, BytesOut |-> 0,
            ReadTimeNS |-> 0, WriteTimeNS |-> 0, EngineTimeNS |-> 0, CopyTimeNS |-> 0]
\* counter += uint64(t2 - t1)
Elapsed(counter) == 1
\* (variant: Reset keeps the counters of a Perf that exists)
keptPerf(perf) == IF perf.nil THEN NewPerf ELSE perf
\* Reset: z.perf = new(Perf)
freshPerf(perf) == NewPerf

VARIABLES
  w,        \* the Writer struct
  sink,     \* bytes received by the downstream io.Writer z.w
  wlog,     \* engine calls issued by the last Writer call
  wconsumed, \* input consumed by successful Compress calls of the session
  wnext,    \* bytes passed to Write so far in the current session
  wret,     \* the last Writer call, what it returned, and the BytesIn
            \* counter it found
  wfault,   \* the Writer hit a run-time panic / crash
  wapplies, \* Apply calls made on the Writer
  wsess,    \* since the last Reset: whether Close was called, and the first
            \* Write or Close that returned an error
  hw,       \* whether a QAT session can be started: "ok", "nomem", "nosession"
  faults,   \* whether the engine, the sink and the upstream may report failures
  osenv,    \* the process environment: QATGO_ALGORITHM, QATGO_COMPRESSION_LEVEL
  rd,       \* the Reader struct
  rsrc,     \* the compressed stream the upstream io.Reader z.r was created on
  rup,      \* the bytes z.r has not handed out yet
  rlog,     \* engine calls issued by the last Reader call
  rdelivered, \* bytes returned by the Read calls of the current session
  rret,     \* the last Reader call and what it returned
  rfault,   \* the Reader hit a crash
  qg,       \* the run of the qgzip command: where main is, its WaitGroup and
            \* error channel, and where each doWork is
  rmode     \* "none": no Reader yet; "sink": a Reader on what the Writer
            \* wrote; "given": a Reader on a stream from elsewhere; "wide":
            \* a Reader on the long stream WideSource; "apart": a Writer
            \* and a Reader on a stream from elsewhere, side by side

\* qgzip is not run
NoRun == [ pc |-> "none" ]

wvars == <<w, sink, wlog, wconsumed, wnext, wret, wfault, wapplies, wsess>>
rvars == <<rd, rsrc, rup, rlog, rdelivered, rret, rfault, rmode>>
vars == <<w, sink, wlog, wconsumed, wnext, wret, wfault, wapplies, wsess, hw, faults, osenv,
          rd, rsrc, rup, rlog, rdelivered, rret, rfault, rmode, qg>>

\* ===================================================================
\* Engine binding (bindings.go, qatzip_internal.c)
\* ===================================================================

\* responses the engine / sink can be scripted to give to one Compress call:
\*   "all"  consume the whole input        "one"  consume one byte
\*   "buf"  QZ_BUF_ERROR                   "err"  a terminal error
\*   "sink" consume all, then the downstream Write of the output fails
Responses == {"all", "one", "buf", "err", "sink"}
RECURSIVE SeqsUpTo(_, _)
SeqsUpTo(S, n) ==
  IF n = 0 THEN {<<>>}
  ELSE LET shorter == SeqsUpTo(S, n - 1)
       IN shorter \cup {Append(t, x) : t \in {u \in shorter : Len(u) = n - 1}, x \in S}
Scripts == SeqsUpTo(Responses, MaxScript)
\* ... and the responses of an engine and a sink that do not fail
CalmResponses == {"all", "one", "buf"}
CalmScripts == SeqsUpTo(CalmResponses, MaxScript)

\* qatzip_internal.c MIN_GZIP_SIZE (scaled): DEFLATE inputs up to this size
\* are compressed with the last flag forced
MinGzipSize == 1

\* the member the engine emits for `data`
Encode(alg, data, last) == <<HDR(alg)>> \o data \o <<FTR(last)>>

\* qatzip_compress_crc: the last flag the engine call really uses
EffectiveLast(alg, n, last) == last \/ (alg = DEFLATE /\ n <= MinGzipSize)

\* the result of an engine call that consumed n bytes into `member`, given
\* an output buffer of outLen bytes
Emitted(n, member, outLen) ==
  IF Len(member) > outLen
  THEN [c |-> 0, out |-> <<>>, err |-> ErrBuffer]
  ELSE [c |-> n, out |-> member, err |-> Nil]

\* the number of input bytes the engine takes in one call
Taken(in, resp) == IF resp = "one" THEN 1 ELSE Len(in)

\* QzBinding.Compress on an active session: in = input, outLen = len(out),
\* resp = what the engine is scripted to do.  Returns consumed count c,
\* the produced bytes out (p = Len(out)) and err.
Compress(alg, last, in, outLen, resp) ==
  IF Len(in) = 0 THEN [c |-> 0, out |-> <<>>, err |-> ErrEmptyBuffer]
  ELSE IF resp = "err" THEN [c |-> 0, out |-> <<>>, err |-> ErrTimeout]
  ELSE IF resp = "buf" THEN [c |-> 0, out |-> <<>>, err |-> ErrBuffer]
  ELSE Emitted(Taken(in, resp),
               Encode(alg, Take(in, Taken(in, resp)), EffectiveLast(alg, Len(in), last)),
               outLen)

\* QzBinding.SetLast
SetLast(q, enable) == [q EXCEPT !.last = enable]

\* QzBinding.Close: a second Close is a no-op; the first frees the state
\* whatever status the teardown returns
QzClose(q, teardownOK) ==
  IF q.closed THEN [q |-> q, err |-> Nil]
  ELSE [q |-> [q EXCEPT !.closed = TRUE, !.active = FALSE],
        err |-> IF teardownOK THEN Nil ELSE ErrFail]

\* what a call into the engine yields, when it does not crash, once
\* qatzip_close has freed the session state
Freed == [c |-> 0, out |-> <<>>, err |-> ErrFail]

\* ===================================================================
\* Writer (compress.go)
\* ===================================================================

\* NewWriter with no QATGO_* environment variable set
NewWriter ==
  [ closed |-> TRUE, wroteHeader |-> FALSE, err |-> Nil, q |-> NilQ,
    bounceBuf |-> <<>>, bounceCap |-> 0, outputBufLen |-> 0,
    bufferGrowth |-> 0, p |-> defaultParams, perf |-> NilPerf ]

\* the machine a Writer call runs on: the Writer z, its sink, the engine-call
\* log, whether the call has dropped a session handle whose session was
\* still open, and the environment's choices for this call (script of engine
\* responses, outcome uaf of touching a freed session, teardownOK, start)
Machine(z, snk, env) ==
  [ z |-> z, sink |-> snk, log |-> <<>>, fault |-> FALSE, reset |-> FALSE,
    orphaned |-> FALSE,
    script |-> env.script, uaf |-> env.uaf, teardownOK |-> env.teardownOK,
    start |-> env.start ]

\* the choices of the environment that can matter to a call on Writer z
\* that passes len new bytes: the engine is only reached with pending or new
\* input, a freed session only after Close, the teardown only by Close/Reset
Envs(z, op, len) ==
  [ script : IF z.err # Nil THEN {<<>>}
             ELSE IF Len(z.bounceBuf) > 0 \/ len > 0
             THEN (IF faults THEN Scripts ELSE CalmScripts)
             ELSE IF faults THEN {<<>>, <<"sink">>} ELSE {<<>>},
    uaf : IF z.q.closed /\ z.err = Nil THEN {"fail", "crash"} ELSE {"fail"},
    teardownOK : IF faults /\ op # "Write" /\ ~z.closed /\ z.err = Nil
                 THEN BOOLEAN ELSE {TRUE},
    start : {hw} ]

\* the environment stops signalling spurious QZ_BUF_ERROR once the growth
\* increment has reached MaxGrowth (keeps the doubling finite)
NextResp(st) ==
  IF st.script = <<>> THEN "all"
  ELSE IF Head(st.script) = "buf" /\ st.z.bufferGrowth >= MaxGrowth THEN "all"
  ELSE Head(st.script)
PopResp(st) == IF st.script = <<>> THEN st ELSE [st EXCEPT !.script = Tail(st.script)]

\* z.w.Write(data): fails when the script says so
SinkWrite(st, data, fails) ==
  IF fails THEN [st |-> st, err |-> ErrSink]
  ELSE [st |-> [st EXCEPT !.sink = st.sink \o data], err |-> Nil]

\* (variant: the last produced byte is not forwarded)
ForwardedShort(out, produced) == Take(out, produced - 1)
\* the bytes compressWrite forwards after a successful Compress:
\* z.outputBuf.Bytes()[:produced]
Forwarded(out, produced) == Take(out, produced)

\* the size of the reallocated output buffer
GrownSize(remainder, bufferGrowth) == remainder + bufferGrowth

\* (variant: the whole buffer is submitted again)
UnconsumedFromStart(p, consumed) == p
\* the input handed to the engine: p[consumed:]
Unconsumed(p, consumed) == Drop(p, consumed)

\* one engine call as the log records it: first input byte offered, bytes
\* consumed, error, the session's last flag, and whether the session had
\* already been closed
LogEntry(st, in, res) ==
  [ off |-> in[1], len |-> Len(in), c |-> res.c, err |-> res.err,
    last |-> st.z.q.last, closed |-> st.z.q.closed, out |-> res.out,
    cap |-> st.z.outputBufLen, growth |-> st.z.bufferGrowth ]

\* the machine with the engine call on `in` that returned res logged
Logged(st, in, res) == [st EXCEPT !.log = Append(st.log, LogEntry(st, in, res))]

\* compressWrite: `if z.p.InputBufferMode == Last { z.q.SetLast(true) }`
lastIfMode(st) ==
  IF st.z.p.InputBufferMode = Last THEN [st EXCEPT !.z.q = SetLast(st.z.q, TRUE)] ELSE st

\* (variant: the output buffer is replaced by one of the same size)
grownNot(st, remainder) ==
  [st EXCEPT !.z.bufferGrowth = @ * 2,
             !.z.perf.CopyTimeNS = Elapsed(@)]
\* compressWrite: the output buffer is replaced by a larger one
grown(st, remainder) ==
  [st EXCEPT !.z.bufferGrowth = @ * 2,
             !.z.outputBufLen = GrownSize(remainder, st.z.bufferGrowth * 2),
             !.z.perf.CopyTimeNS = Elapsed(@)]

\* compressWrite: the counters after a Compress that returned res without error
counted(st, res) ==
  [st EXCEPT !.z.perf.BytesIn = @ + res.c,
             !.z.perf.BytesOut = @ + Len(res.out),
             !.z.perf.EngineTimeNS = Elapsed(@),
             !.z.wroteHeader = TRUE]

\* the loop of compressWrite, from `consumed` on
RECURSIVE compressLoop(_, _, _)

\* ... after z.w.Write returned sw
afterSinkWrite(sw, p, consumed) ==
  IF sw.err # Nil
  THEN [st |-> [sw.st EXCEPT !.z.err = sw.err], n |-> consumed, err |-> sw.err]
  ELSE compressLoop(sw.st, p, consumed)

\* ... after a Compress that returned res without error: the output, if
\* any, goes to the sink
forward(st, p, consumed, res, resp) ==
  IF Len(res.out) > 0
  THEN afterSinkWrite(SinkWrite([st EXCEPT !.z.perf.WriteTimeNS = Elapsed(@)],
                                Forwarded(res.out, Len(res.out)), resp = "sink"),
                      p, consumed)
  ELSE compressLoop(st, p, consumed)

\* (variant: an insufficient-buffer signal is returned like any other error)
afterCompressNoRetry(st, p, consumed, res, resp) ==
  IF res.err # Nil
  THEN [st |-> [st EXCEPT !.z.err = res.err], n |-> consumed, err |-> res.err]
  ELSE forward(counted(st, res), p, consumed + res.c, res, resp)
\* ... after the Compress call returned res
afterCompress(st, p, consumed, res, resp) ==
  IF res.err = ErrBuffer THEN compressLoop(grown(st, Len(p) - consumed), p, consumed)
  ELSE IF res.err # Nil
  THEN [st |-> [st EXCEPT !.z.err = res.err], n |-> consumed, err |-> res.err]
  ELSE forward(counted(st, res), p, consumed + res.c, res, resp)

\* ... the Compress call on the input `in` returned res
compressed(st, p, consumed, in, resp, res) ==
  afterCompress(Logged(PopResp(st), in, res), p, consumed, res, resp)

\* ... the Compress call on the input `in`, answered as resp says
compressCall(st, p, consumed, in, resp) ==
  compressed(st, p, consumed, in, resp,
             Compress(st.z.p.Algorithm, st.z.q.last, in, st.z.outputBufLen, resp))

\* ... one iteration on the input `in`.  A session closed by Close has had
\* its state freed by qatzip_close: the call is a use after free.
compressIteration(st, p, consumed, in) ==
  IF st.z.q.closed
  THEN IF st.uaf = "crash"
       THEN [st |-> [st EXCEPT !.fault = TRUE], n |-> consumed, err |-> Nil]
       ELSE [st |-> [Logged(st, in, Freed) EXCEPT !.z.err = ErrFail],
             n |-> consumed, err |-> ErrFail]
  ELSE compressCall(st, p, consumed, in, NextResp(st))

compressLoop(st, p, consumed) ==
  IF Len(p) - consumed <= 0 \/ st.fault THEN [st |-> st, n |-> consumed, err |-> Nil]
  ELSE compressIteration(lastIfMode(st), p, consumed, Unconsumed(p, consumed))

\* Writer.compressWrite
compressWrite(st, p) ==
  IF st.z.err # Nil THEN [st |-> st, n |-> 0, err |-> st.z.err]
  ELSE compressLoop(st, p, 0)

\* flushBounceBuffer after compressWrite returned cw for `pending` bytes
flushed(cw, pending) ==
  IF cw.st.fault THEN [st |-> cw.st, err |-> Nil]
  ELSE IF cw.err # Nil
  THEN [st |-> [cw.st EXCEPT !.z.err = cw.err], err |-> cw.err]
  ELSE IF cw.n < pending
  THEN [st |-> [cw.st EXCEPT !.z.err = ErrShortWrite], err |-> ErrShortWrite]
  ELSE [st |-> [cw.st EXCEPT !.z.bounceBuf = <<>>], err |-> Nil]

\* Writer.flushBounceBuffer
flushBounceBuffer(st) ==
  IF Len(st.z.bounceBuf) > 0
  THEN flushed(compressWrite(st, st.z.bounceBuf), Len(st.z.bounceBuf))
  ELSE [st |-> [st EXCEPT !.z.bounceBuf = <<>>], err |-> Nil]

\* (variant: no placeholder for any algorithm)
EmptyBufferNone(alg) == <<>>
\* the empty-payload placeholder of writeEmptyBuffer: a header/footer pair
\* for DEFLATE and LZ4; for ZSTD the result of zstd.Compress is discarded
\* and buf stays nil
EmptyBuffer(alg) ==
  IF alg \in {DEFLATE, LZ4} THEN Encode(alg, <<>>, TRUE) ELSE <<>>

\* the script makes the next write to the sink fail
sinkFails(st) == st.script # <<>> /\ Head(st.script) = "sink"

\* writeEmptyBuffer after z.w.Write(buf) returned sw
emptyWritten(sw) == [st |-> [sw.st EXCEPT !.z.wroteHeader = TRUE], err |-> sw.err]

\* Writer.writeEmptyBuffer
writeEmptyBuffer(st) ==
  IF st.z.p.Algorithm \notin Algorithms
  THEN [st |-> st, err |-> ErrUnsupportedFmt]
  ELSE emptyWritten(SinkWrite(IF sinkFails(st) THEN PopResp(st) ELSE st,
                              EmptyBuffer(st.z.p.Algorithm), sinkFails(st)))

\* the value Close returns when the Writer is already closed (bare return
\* of the named result err, which is still nil)
ClosedResult(z) == Nil

\* Close: nothing was written, consumed or buffered in the session
nothingWritten(z) == ~z.wroteHeader /\ z.perf.BytesIn = 0 /\ Len(z.bounceBuf) = 0

\* Close after the last flush returned fl and z.q.Close() returned qc
sessionClosed(fl, qc) ==
  IF fl.st.fault THEN [st |-> fl.st, err |-> Nil]
  ELSE IF fl.err # Nil
  THEN [st |-> [fl.st EXCEPT !.z.q = qc.q], err |-> fl.st.z.err]
  ELSE [st |-> [fl.st EXCEPT !.z.q = qc.q, !.z.err = qc.err], err |-> qc.err]

\* Close after the last flush returned fl
lastFlushed(fl) == sessionClosed(fl, QzClose(fl.st.z.q, fl.st.teardownOK))

\* Close from `z.closed = true` on: the last write
lastWrite(st) ==
  lastFlushed(flushBounceBuffer([st EXCEPT !.z.closed = TRUE,
                                           !.z.q = SetLast(st.z.q, TRUE)]))

\* Close after the empty-buffer step returned we
afterEmptyBuffer(we) ==
  IF we.err # Nil THEN [st |-> [we.st EXCEPT !.z.err = we.err], err |-> we.err]
  ELSE lastWrite([we.st EXCEPT !.z.err = we.err])

\* Writer.Close
Close(st) ==
  IF st.z.closed
  THEN [st |-> [st EXCEPT !.z.err = ErrWriterClosed], err |-> ClosedResult(st.z)]
  ELSE IF st.z.err # Nil THEN [st |-> st, err |-> st.z.err]
  ELSE afterEmptyBuffer(IF nothingWritten(st.z) THEN writeEmptyBuffer(st)
                        ELSE [st |-> st, err |-> Nil])

\* (variant: Reset leaves the stored error in place)
staleErr(err) == err

\* Reset: z.err = nil
clearedErr(err) == Nil

\* Reset: `z.q, err = NewQzBinding()` overwrites the handle z.q, whether the
\* session behind it is still open or not
rebound(s1) == IF s1.fault THEN s1 ELSE [s1 EXCEPT !.orphaned = s1.z.q.active]

\* Reset after z.Close(): the new session on the sink holding snk
newSession(s1, snk) ==
  IF s1.fault THEN [st |-> s1, err |-> Nil]
  ELSE IF s1.start = "nomem"
  THEN [st |-> [s1 EXCEPT !.z.q = NilQ, !.z.err = ErrNoMem], err |-> ErrNoMem]
  ELSE IF s1.start = "nosession"
  THEN [st |-> [s1 EXCEPT !.z.q = [NilQ EXCEPT !.nil = FALSE], !.z.err = ErrNoSwHw],
        err |-> ErrNoSwHw]
  ELSE [st |-> [s1 EXCEPT
                 !.z.q = [nil |-> FALSE, active |-> TRUE, closed |-> FALSE, last |-> FALSE],
                 !.z.outputBufLen = s1.z.p.OutputBufLength,
                 !.sink = snk,
                 !.reset = TRUE,
                 !.z.closed = FALSE,
                 !.z.err = clearedErr(s1.z.err),
                 !.z.wroteHeader = FALSE,
                 !.z.bufferGrowth = s1.z.p.BufferGrowth,
                 !.z.bounceBuf = <<>>,
                 !.z.bounceCap = s1.z.p.BounceBufferLength,
                 !.z.perf = freshPerf(s1.z.perf)],
        err |-> Nil]

\* Writer.Reset(w): snk is what the new sink w already holds
Reset(st, snk) == newSession(rebound(Close(st).st), snk)

\* (variant: the bytes kept in the bounce buffer are not counted)
writtenUncounted(cw, nb) ==
  IF cw.err # Nil
  THEN [st |-> [cw.st EXCEPT !.z.err = cw.err], n |-> cw.n, err |-> cw.err]
  ELSE [st |-> cw.st, n |-> cw.n, err |-> Nil]
\* Write after compressWrite returned cw, with nb bytes kept in the bounce buffer
written(cw, nb) ==
  IF cw.err # Nil
  THEN [st |-> [cw.st EXCEPT !.z.err = cw.err], n |-> cw.n + nb, err |-> cw.err]
  ELSE [st |-> cw.st, n |-> cw.n + nb, err |-> Nil]

\* Write: the whole of p is copied into the bounce buffer, which is
\* reallocated with capacity cap when p is longer than what it holds
bounceAll(s1, p, cap) ==
  IF Len(p) > cap
  THEN [st |-> [s1 EXCEPT !.fault = TRUE], n |-> 0, err |-> Nil]
  ELSE [st |-> [s1 EXCEPT !.z.bounceBuf = p, !.z.bounceCap = cap,
                          !.z.perf.CopyTimeNS = Elapsed(@)],
        n |-> Len(p), err |-> Nil]

\* Write: the tail rb of p is reserved, the prefix b is compressed
reserveTail(s1, b, rb) ==
  IF Len(rb) > s1.z.bounceCap
  THEN \* z.bounceBuf[:len(rb)] beyond the capacity: run-time panic
       [st |-> [s1 EXCEPT !.fault = TRUE], n |-> 0, err |-> Nil]
  ELSE written(compressWrite([s1 EXCEPT !.z.bounceBuf = rb,
                                        !.z.perf.CopyTimeNS = Elapsed(@)], b),
               Len(rb))

\* (variant: in Last mode every Write is compressed at once)
bufferOrCompressEager(s1, p) ==
  IF s1.z.p.InputBufferMode = Bounce
     \/ (s1.z.p.InputBufferMode = Reserve /\ Len(p) <= s1.z.p.BounceBufferLength)
  THEN bounceAll(s1, p, IF Len(p) > Len(s1.z.bounceBuf) THEN Len(p) ELSE s1.z.bounceCap)
  ELSE IF s1.z.p.InputBufferMode = Reserve
  THEN reserveTail(s1, Take(p, Len(p) - s1.z.p.BounceBufferLength),
                   Drop(p, Len(p) - s1.z.p.BounceBufferLength))
  ELSE written(compressWrite(s1, p), 0)
\* Write after the flush: buffer or compress p
bufferOrCompress(s1, p) ==
  IF s1.z.p.InputBufferMode # NoLast
     /\ (s1.z.p.InputBufferMode = Bounce \/ Len(p) <= s1.z.p.BounceBufferLength)
  THEN bounceAll(s1, p, IF Len(p) > Len(s1.z.bounceBuf) THEN Len(p) ELSE s1.z.bounceCap)
  ELSE IF s1.z.p.InputBufferMode = Reserve
  THEN reserveTail(s1, Take(p, Len(p) - s1.z.p.BounceBufferLength),
                   Drop(p, Len(p) - s1.z.p.BounceBufferLength))
  ELSE written(compressWrite(s1, p), 0)

\* Write after flushBounceBuffer returned fl
afterFlush(fl, p) ==
  IF fl.st.fault THEN [st |-> fl.st, n |-> 0, err |-> Nil]
  ELSE IF fl.err # Nil THEN [st |-> [fl.st EXCEPT !.z.err = fl.err], n |-> 0, err |-> fl.err]
  ELSE bufferOrCompress(fl.st, p)

\* Write, after the session exists: flush, then buffer or compress
WriteBody(st, p) == afterFlush(flushBounceBuffer(st), p)

\* Write after the lazy z.Reset(z.w) returned rs
started(rs, p) ==
  IF rs.st.fault THEN [st |-> rs.st, n |-> 0, err |-> Nil]
  ELSE IF rs.err # Nil
  THEN [st |-> [rs.st EXCEPT !.z.err = rs.err], n |-> 0, err |-> rs.err]
  ELSE WriteBody([rs.st EXCEPT !.z.err = Nil], p)

\* Writer.Write
Write(st, p) ==
  IF st.z.err # Nil THEN [st |-> st, n |-> 0, err |-> st.z.err]
  ELSE IF st.z.q.nil THEN started(Reset(st, st.sink), p)
  ELSE WriteBody(st, p)

\* AlgorithmOption (errors.go) applied to the parameters p of a Reader or a Writer
AlgorithmOption(kind, p, alg) ==
  IF alg \notin Algorithms THEN [p |-> p, err |-> ErrParamAlgorithm]
  ELSE [p |-> [p EXCEPT !.Algorithm = alg], err |-> Nil]

\* InputBufferModeOption (errors.go): accepted by a Writer only
InputBufferModeOption(kind, p, mode) ==
  IF mode \notin InputBufferModes THEN [p |-> p, err |-> ErrInputBufferMode]
  ELSE IF kind # "Writer" THEN [p |-> p, err |-> ErrApplyInvalidType]
  ELSE [p |-> [p EXCEPT !.InputBufferMode = mode], err |-> Nil]

\* CompressionLevelOption (errors.go): accepted by a Writer only
CompressionLevelOption(kind, p, level) ==
  IF level <= 0 THEN [p |-> p, err |-> ErrParamCompressionLevel]
  ELSE IF kind # "Writer" THEN [p |-> p, err |-> ErrApplyInvalidType]
  ELSE [p |-> [p EXCEPT !.Level = level], err |-> Nil]

\* DirOption (errors.go)
DirOption(kind, p, dir) ==
  IF dir \notin Directions THEN [p |-> p, err |-> ErrParamDirection]
  ELSE IF kind = "Reader" /\ dir = DirCompress THEN [p |-> p, err |-> ErrParams]
  ELSE IF kind = "Writer" /\ dir = DirDecompress THEN [p |-> p, err |-> ErrParams]
  ELSE [p |-> [p EXCEPT !.Direction = dir], err |-> Nil]

\* OutputBufLengthOption (errors.go)
OutputBufLengthOption(kind, p, len) ==
  IF len < MinBufferLength THEN [p |-> p, err |-> ErrParamOutputBufLength]
  ELSE [p |-> [p EXCEPT !.OutputBufLength = len], err |-> Nil]

\* InputBufLengthOption (errors.go): accepted by a Reader only
InputBufLengthOption(kind, p, len) ==
  IF len < MinBufferLength THEN [p |-> p, err |-> ErrParamInputBufLength]
  ELSE IF kind # "Reader" THEN [p |-> p, err |-> ErrApplyInvalidType]
  ELSE [p |-> [p EXCEPT !.InputBufLength = len], err |-> Nil]

\* BounceBufferLengthOption (errors.go): accepted by a Writer only
BounceBufferLengthOption(kind, p, len) ==
  IF len < MinBounceBufferLength THEN [p |-> p, err |-> ErrParamBounceBufferLength]
  ELSE IF kind # "Writer" THEN [p |-> p, err |-> ErrApplyInvalidType]
  ELSE [p |-> [p EXCEPT !.BounceBufferLength = len], err |-> Nil]

\* (variant: BufferGrowthOption without the test of its argument)
BufferGrowthUnchecked(kind, p, len) ==
  [p |-> [p EXCEPT !.BufferGrowth = len], err |-> Nil]

\* BufferGrowthOption (errors.go)
BufferGrowthOption(kind, p, len) ==
  IF len < MinBufferLength THEN [p |-> p, err |-> ErrParamBufferGrowth]
  ELSE [p |-> [p EXCEPT !.BufferGrowth = len], err |-> Nil]

\* op(z) for the option op that the constructor named o.name returned for
\* the argument o.v
ApplyOption(kind, p, o) ==
  IF o.name = "Algorithm" THEN AlgorithmOption(kind, p, o.v)
  ELSE IF o.name = "InputBufferMode" THEN InputBufferModeOption(kind, p, o.v)
  ELSE IF o.name = "Level" THEN CompressionLevelOption(kind, p, o.v)
  ELSE IF o.name = "Direction" THEN DirOption(kind, p, o.v)
  ELSE IF o.name = "OutputBufLength" THEN OutputBufLengthOption(kind, p, o.v)
  ELSE IF o.name = "InputBufLength" THEN InputBufLengthOption(kind, p, o.v)
  ELSE IF o.name = "BounceBufferLength" THEN BounceBufferLengthOption(kind, p, o.v)
  ELSE BufferGrowthOption(kind, p, o.v)

\* the loop of Apply: options are applied in order up to the first failure
RECURSIVE ApplyAll(_, _, _)
\* ... after op(z) returned o
applied(kind, o, rest) == IF o.err # Nil THEN o ELSE ApplyAll(kind, o.p, rest)
ApplyAll(kind, p, options) ==
  IF options = <<>> THEN [p |-> p, err |-> Nil]
  ELSE applied(kind, ApplyOption(kind, p, Head(options)), Tail(options))

\* (variant: an Apply that fails leaves the parameters as it found them)
withParamsOrNone(z, a) ==
  [z |-> IF a.err # Nil THEN z ELSE [z EXCEPT !.p = a.p], err |-> a.err]

\* Apply: the object with the parameters the loop left
withParams(z, a) == [z |-> [z EXCEPT !.p = a.p], err |-> a.err]

\* (variant: Apply without the test for a session handle)
ApplyUnguarded(kind, z, options) == withParams(z, ApplyAll(kind, z.p, options))

\* Writer.Apply / Reader.Apply
Apply(kind, z, options) ==
  IF ~z.q.nil THEN [z |-> z, err |-> ErrApplyPostInit]
  ELSE withParams(z, ApplyAll(kind, z.p, options))

\* the options a caller may pass: every valid value and one invalid value
WOptions ==
  [name : {"Algorithm"}, v : Algorithms \cup {3}]
    \cup [name : {"InputBufferMode"}, v : InputBufferModes \cup {4}]
OptionBatches == SeqsUpTo(WOptions, MaxBatch)
\* ... and to a Reader
ROptions ==
  [name : {"Algorithm"}, v : Algorithms \cup {3}]
    \cup [name : {"InputBufferMode"}, v : {Reserve}]
ROptionBatches == SeqsUpTo(ROptions, MaxBatch)

\* every option constructor of the model, each with one argument in its
\* domain that is not the default and one argument out of it (DirOption with
\* the two one-way directions as well)
AnyOptions ==
  [name : {"Algorithm"}, v : {LZ4, 3}]
    \cup [name : {"InputBufferMode"}, v : {Bounce, 4}]
    \cup [name : {"Level"}, v : {0, 2}]
    \cup [name : {"Direction"}, v : {DirCompress, DirDecompress, 3}]
    \cup [name : {"OutputBufLength"}, v : {MinBufferLength - 1, MinBufferLength}]
    \cup [name : {"InputBufLength"}, v : {MinBufferLength - 1, MinBufferLength}]
    \cup [name : {"BounceBufferLength"},
          v : {MinBounceBufferLength - 1, MinBounceBufferLength + 1}]
    \cup [name : {"BufferGrowth"}, v : {MinBufferLength - 1, MinBufferLength}]
AnyBatches == SeqsUpTo(AnyOptions, MaxBatch)

\* ------------------------------------------------- process environment
\* QATGO_ALGORITHM and QATGO_COMPRESSION_LEVEL; "" is an unset variable
NoEnv == [algorithm |-> "", level |-> ""]
OsEnvs == [algorithm : {"", "zstd", "brotli"}, level : {"", "3", "two"}]

\* algorithmConv (params.go)
algorithmConv ==
  [str \in {"deflate", "gzip", "lz4", "zstd"} |->
     IF str = "lz4" THEN LZ4 ELSE IF str = "zstd" THEN ZSTD ELSE DEFLATE]

\* strconv.Atoi on the strings of the model
Atoi(str) ==
  IF str = "3" THEN [v |-> 3, err |-> Nil]
  ELSE IF str = "0" THEN [v |-> 0, err |-> Nil]
  ELSE [v |-> 0, err |-> "strconv.ErrSyntax"]

\* applyEnvOptions from compLvlStr on
envLevel(z, env) ==
  IF env.level = "" THEN [z |-> z, err |-> Nil]
  ELSE IF Atoi(env.level).err # Nil THEN [z |-> z, err |-> ErrParamCompressionLevel]
  ELSE Apply("Writer", z, <<[name |-> "Level", v |-> Atoi(env.level).v]>>)

\* applyEnvOptions after the algorithm step returned a
envAlgorithmApplied(a, env) == IF a.err # Nil THEN a ELSE envLevel(a.z, env)

\* applyEnvOptions
applyEnvOptions(z, env) ==
  IF env.algorithm = "" THEN envLevel(z, env)
  ELSE IF env.algorithm \notin DOMAIN algorithmConv
  THEN [z |-> z, err |-> ErrParamAlgorithm]
  ELSE envAlgorithmApplied(
         Apply("Writer", z, <<[name |-> "Algorithm",
                               v |-> algorithmConv[env.algorithm]]>>), env)

\* z.err = applyEnvOptions(z)
envApplied(a) == [a.z EXCEPT !.err = a.err]

\* (variant: NewWriter that does not look at the environment)
NewWriterBlind(env) == NewWriter

\* NewWriter in the process environment env
NewWriterIn(env) == envApplied(applyEnvOptions(NewWriter, env))

\* ------------------------------------------------------ Writer actions
\* the last Writer call: its name, results, argument length, and what the
\* Writer held when it was called (bytes counted, closed flag, stored error)
\* ... the options that the loop of the call went through if it was an Apply,
\* and the algorithm and level that the Apply calls made so far have set
\* (-1: none)
NoStaged == [Algorithm |-> 0 - 1, Level |-> 0 - 1]
NoRet == [op |-> "none", n |-> 0, err |-> Nil, len |-> 0, before |-> 0,
          wasClosed |-> TRUE, wasErr |-> Nil, options |-> <<>>, staged |-> NoStaged,
          orphaned |-> FALSE]

\* the option o is one that an object of this kind takes: its argument
\* is in the option's domain and the option is meant for the kind
Accepted(kind, o) ==
  IF o.name = "Algorithm" THEN o.v \in Algorithms
  ELSE IF o.name = "InputBufferMode" THEN o.v \in InputBufferModes /\ kind = "Writer"
  ELSE IF o.name = "Level" THEN o.v > 0 /\ kind = "Writer"
  ELSE IF o.name = "Direction"
  THEN o.v \in Directions /\ o.v # (IF kind = "Writer" THEN DirDecompress ELSE DirCompress)
  ELSE IF o.name = "OutputBufLength" THEN o.v >= MinBufferLength
  ELSE IF o.name = "InputBufLength" THEN o.v >= MinBufferLength /\ kind = "Reader"
  ELSE IF o.name = "BounceBufferLength"
  THEN o.v >= MinBounceBufferLength /\ kind = "Writer"
  ELSE o.v >= MinBufferLength

\* the algorithm and level set so far, after an Apply with these options
\* that got as far as its loop
RECURSIVE StagedBy(_, _, _)
StagedBy(kind, staged, options) ==
  IF options = <<>> THEN staged
  ELSE IF ~Accepted(kind, Head(options)) THEN staged
  ELSE StagedBy(kind,
                IF Head(options).name \in {"Algorithm", "Level"}
                THEN [staged EXCEPT ![Head(options).name] = Head(options).v]
                ELSE staged,
                Tail(options))

NoSess == [closeCalled |-> FALSE, failedOp |-> "none", E |-> Nil]

\* wsess after a call of op that returned err
Noted(sess, op, err) ==
  IF sess.failedOp = "none" /\ err # Nil
  THEN [sess EXCEPT !.failedOp = op, !.E = err]
  ELSE sess

\* bytes consumed by the successful engine calls of a log, in call order
RECURSIVE ConsumedBy(_)
ConsumedBy(log) ==
  IF log = <<>> THEN <<>>
  ELSE (IF Head(log).err = Nil THEN Bytes(Head(log).off - 1, Head(log).c) ELSE <<>>)
         \o ConsumedBy(Tail(log))

WInit ==
  /\ w = NewWriterIn(osenv)
  /\ sink = <<>>
  /\ wlog = <<>>
  /\ wconsumed = <<>>
  /\ wnext = 0
  /\ wret = NoRet
  /\ wfault = FALSE
  /\ wapplies = 0
  /\ wsess = NoSess

WApply ==
  /\ rmode = "none"
  /\ ~wfault
  /\ wapplies < MaxApplies
  /\ \E options \in OptionBatches :
     \E a \in {Apply("Writer", w, options)} :
       /\ w' = a.z
       /\ wret' = [op |-> "Apply", n |-> 0, err |-> a.err, len |-> 0,
                   before |-> w.perf.BytesIn,
                   wasClosed |-> w.closed, wasErr |-> w.err,
                   options |-> IF w.q.nil THEN options ELSE <<>>,
                   staged |-> IF w.q.nil THEN StagedBy("Writer", wret.staged, options)
                              ELSE wret.staged,
                   orphaned |-> FALSE]
  /\ wlog' = <<>>
  /\ wapplies' = wapplies + 1
  /\ UNCHANGED <<sink, wconsumed, wnext, wfault, wsess, hw, faults, osenv, qg>>
  /\ UNCHANGED rvars

\* Apply on the Writer with options drawn from every option constructor
WApplyAny ==
  /\ rmode = "none"
  /\ ~wfault
  /\ wapplies < MaxAnyApplies
  /\ \E options \in AnyBatches :
     \E a \in {Apply("Writer", w, options)} :
       /\ w' = a.z
       /\ wret' = [op |-> "Apply", n |-> 0, err |-> a.err, len |-> 0,
                   before |-> w.perf.BytesIn,
                   wasClosed |-> w.closed, wasErr |-> w.err,
                   options |-> IF w.q.nil THEN options ELSE <<>>,
                   staged |-> IF w.q.nil THEN StagedBy("Writer", wret.staged, options)
                              ELSE wret.staged,
                   orphaned |-> FALSE]
  /\ wlog' = <<>>
  /\ wapplies' = wapplies + 1
  /\ UNCHANGED <<sink, wconsumed, wnext, wfault, wsess, hw, faults, osenv, qg>>
  /\ UNCHANGED rvars

\* the effect of a Writer call on the observation variables
Observe(r) ==
  /\ w' = r.st.z
  /\ sink' = r.st.sink
  /\ wlog' = r.st.log
  /\ wfault' = r.st.fault

\* the first byte of a Write is numbered after the bytes of the session
Base == IF w.q.nil THEN 0 ELSE wnext

WWrite ==
  /\ rmode \in {"none", "apart"}
  /\ ~wfault
  /\ \E len \in (IF w.err = Nil THEN 0..Min(MaxWrite, MaxTotal - Base) ELSE {1}) :
     \E env \in Envs(w, "Write", len) :
     \E r \in {Write(Machine(w, sink, env), Bytes(Base, len))} :
       /\ Observe(r)
       /\ wconsumed' = (IF r.st.reset THEN <<>> ELSE wconsumed) \o ConsumedBy(r.st.log)
       /\ wnext' = IF w.err = Nil THEN Base + len ELSE wnext
       /\ wret' = [op |-> "Write", n |-> r.n, err |-> r.err, len |-> len,
                   before |-> w.perf.BytesIn,
                   wasClosed |-> w.closed, wasErr |-> w.err,
                   options |-> <<>>, staged |-> wret.staged,
                   orphaned |-> r.st.orphaned]
       /\ wsess' = Noted(IF r.st.reset THEN NoSess ELSE wsess, "Write", r.err)
  /\ UNCHANGED <<wapplies, hw, faults, osenv, qg>>
  /\ UNCHANGED rvars

WClose ==
  /\ rmode \in {"none", "apart"}
  /\ ~wfault
  /\ \E env \in Envs(w, "Close", 0) :
     \E r \in {Close(Machine(w, sink, env))} :
       /\ Observe(r)
       /\ wconsumed' = wconsumed \o ConsumedBy(r.st.log)
       /\ wret' = [op |-> "Close", n |-> 0, err |-> r.err, len |-> 0,
                   before |-> w.perf.BytesIn,
                   wasClosed |-> w.closed, wasErr |-> w.err,
                   options |-> <<>>, staged |-> wret.staged,
                   orphaned |-> r.st.orphaned]
       /\ wsess' = Noted([wsess EXCEPT !.closeCalled = TRUE], "Close", r.err)
  /\ UNCHANGED <<wnext, wapplies, hw, faults, osenv, qg>>
  /\ UNCHANGED rvars

WReset ==
  /\ rmode \in {"none", "apart"}
  /\ ~wfault
  /\ \E env \in Envs(w, "Reset", 0) :
     \E r \in {Reset(Machine(w, sink, env), <<>>)} :
       /\ Observe(r)
       /\ wconsumed' = IF r.st.reset THEN <<>> ELSE wconsumed \o ConsumedBy(r.st.log)
       /\ wnext' = IF r.st.reset THEN 0 ELSE wnext
       /\ wret' = [op |-> "Reset", n |-> 0, err |-> r.err, len |-> 0,
                   before |-> w.perf.BytesIn,
                   wasClosed |-> w.closed, wasErr |-> w.err,
                   options |-> <<>>, staged |-> wret.staged,
                   orphaned |-> r.st.orphaned]
  /\ wsess' = NoSess
  /\ UNCHANGED <<wapplies, hw, faults, osenv, qg>>
  /\ UNCHANGED rvars

\* ===================================================================
\* Engine binding, decompression (bindings.go, qatzip_internal.c)
\* ===================================================================

Footers == {FTR(TRUE), FTR(FALSE)}

\* index of the footer that ends the member starting at in[1]; 0 if none
MemberEnd(in) ==
  IF \E j \in 2..Len(in) : in[j] \in Footers
  THEN CHOOSE j \in 2..Len(in) :
         in[j] \in Footers /\ \A k \in 2..(j - 1) : in[k] \notin Footers
  ELSE 0

\* (variant: the engine reports one byte more consumed than the member holds)
DecodeMemberOver(alg, in, e) ==
  IF in[1] # HDR(alg) \/ e = 0 THEN [c |-> 0, out |-> <<>>, err |-> ErrData]
  ELSE IF \E i \in 2..(e - 1) : in[i] <= 0
  THEN [c |-> 0, out |-> <<>>, err |-> ErrData]
  ELSE [c |-> e + 1, out |-> SubSeq(in, 2, e - 1), err |-> Nil]
\* the member at the head of `in` ends at index e: its payload is decoded
DecodeMember(alg, in, e) ==
  IF in[1] # HDR(alg) \/ e = 0 THEN [c |-> 0, out |-> <<>>, err |-> ErrData]
  ELSE IF \E i \in 2..(e - 1) : in[i] <= 0
  THEN [c |-> 0, out |-> <<>>, err |-> ErrData]
  ELSE [c |-> e, out |-> SubSeq(in, 2, e - 1), err |-> Nil]

\* the engine decodes the member at the head of `in`
DecodeOne(alg, in) == DecodeMember(alg, in, MemberEnd(in))

\* ... and then as many further members as are well-formed and fit
RECURSIVE DecodeMore(_, _, _, _)
\* ... d is the next member decoded
DecodeNext(alg, in, room, done, d) ==
  IF d.err # Nil \/ Len(d.out) > room THEN done
  ELSE DecodeMore(alg, Drop(in, d.c), room - Len(d.out),
                  [c |-> done.c + d.c, out |-> done.out \o d.out, err |-> Nil])
DecodeMore(alg, in, room, done) ==
  IF Len(in) = 0 THEN done
  ELSE DecodeNext(alg, in, room, done, DecodeOne(alg, in))

\* (variant: the engine does not check the length of the output buffer)
DecodedUnchecked(alg, in, outLen, resp, d) ==
  IF d.err # Nil THEN d
  ELSE IF resp = "one" THEN d
  ELSE DecodeMore(alg, Drop(in, d.c), MaxStream, d)
\* the result of a Decompress call whose first member decoded to d
Decoded(alg, in, outLen, resp, d) ==
  IF d.err # Nil THEN d
  ELSE IF Len(d.out) > outLen THEN [c |-> 0, out |-> <<>>, err |-> ErrBuffer]
  ELSE IF resp = "one" THEN d
  ELSE DecodeMore(alg, Drop(in, d.c), outLen - Len(d.out), d)

\* (variant: empty input is decompressed to nothing)
DecompressOfNothing(alg, in, outLen, resp) ==
  IF Len(in) = 0 THEN [c |-> 0, out |-> <<>>, err |-> Nil]
  ELSE IF resp = "err" THEN [c |-> 0, out |-> <<>>, err |-> ErrTimeout]
  ELSE IF resp = "buf" THEN [c |-> 0, out |-> <<>>, err |-> ErrBuffer]
  ELSE Decoded(alg, in, outLen, resp, DecodeOne(alg, in))
\* QzBinding.Decompress on an active session
Decompress(alg, in, outLen, resp) ==
  IF Len(in) = 0 THEN [c |-> 0, out |-> <<>>, err |-> ErrEmptyBuffer]
  ELSE IF resp = "err" THEN [c |-> 0, out |-> <<>>, err |-> ErrTimeout]
  ELSE IF resp = "buf" THEN [c |-> 0, out |-> <<>>, err |-> ErrBuffer]
  ELSE Decoded(alg, in, outLen, resp, DecodeOne(alg, in))

\* ===================================================================
\* Reader (src/unnamed/part_002)
\* ===================================================================

\* NewReader
NewReader ==
  [ closed |-> TRUE, err |-> Nil, q |-> NilQ,
    inputBuf |-> <<>>, inputBufLen |-> 0, inputBufOffset |-> 0, inputBufRead |-> 0,
    outputBuf |-> <<>>, outputBufLen |-> 0, outputBufOffset |-> 0, outputBufLeft |-> 0,
    streamDone |-> FALSE, bufferGrowth |-> 0, p |-> defaultParams, perf |-> NilPerf ]

\* the machine a Reader call runs on: the Reader z, the upstream bytes not
\* yet read, the engine-call log, the bytes copied into the caller's buffer,
\* and the environment's choices for this call
RMachine(z, up, env) ==
  [ z |-> z, up |-> up, log |-> <<>>, copied |-> <<>>, reset |-> FALSE,
    orphaned |-> FALSE,
    fault |-> FALSE, uaf |-> env.uaf,
    script |-> env.script, uchunk |-> env.uchunk, ufail |-> env.ufail,
    teardownOK |-> env.teardownOK, start |-> env.start ]

RResponses == {"all", "one", "buf", "err"}
RScripts == SeqsUpTo(RResponses, MaxScript)

\* Reader.Close after z.q.Close() returned qc
readerClosed(st, qc) ==
  [st |-> [st EXCEPT !.z.closed = TRUE, !.z.q = qc.q, !.z.err = qc.err], err |-> qc.err]

\* (variant: without the early return for a closed Reader)
RCloseUnguarded(st) ==
  IF st.z.err # Nil THEN [st |-> st, err |-> st.z.err]
  ELSE IF st.z.q.nil
  THEN [st |-> [st EXCEPT !.z.closed = TRUE, !.z.err = ErrNone], err |-> ErrNone]
  ELSE readerClosed(st, QzClose(st.z.q, st.teardownOK))
\* Reader.Close
RClose(st) ==
  IF st.z.closed THEN [st |-> st, err |-> st.z.err]
  ELSE IF st.z.err # Nil THEN [st |-> st, err |-> st.z.err]
  ELSE IF st.z.q.nil
  THEN [st |-> [st EXCEPT !.z.closed = TRUE, !.z.err = ErrNone], err |-> ErrNone]
  ELSE readerClosed(st, QzClose(st.z.q, st.teardownOK))

\* Reset from NewQzBinding on: the new session on the upstream holding up
newReaderSession(s1, up) ==
  IF s1.start = "nomem"
  THEN [st |-> [s1 EXCEPT !.z.q = NilQ, !.z.err = ErrNoMem], err |-> ErrNoMem]
  ELSE IF s1.start = "nosession"
  THEN [st |-> [s1 EXCEPT !.z.q = [NilQ EXCEPT !.nil = FALSE], !.z.err = ErrNoSwHw],
        err |-> ErrNoSwHw]
  ELSE [st |-> [s1 EXCEPT
                 !.z.q = [nil |-> FALSE, active |-> TRUE, closed |-> FALSE, last |-> FALSE],
                 !.z.err = Nil,
                 !.z.streamDone = FALSE,
                 !.z.inputBufRead = 0,
                 !.z.bufferGrowth = s1.z.p.BufferGrowth,
                 !.up = up,
                 !.reset = TRUE,
                 !.z.inputBuf = <<>>,
                 !.z.inputBufLen = s1.z.p.InputBufLength,
                 !.z.outputBuf = <<>>,
                 !.z.outputBufLen = s1.z.p.OutputBufLength,
                 !.z.inputBufOffset = 0,
                 !.z.outputBufOffset = 0,
                 !.z.outputBufLeft = 0,
                 !.z.closed = FALSE,
                 !.z.perf = freshPerf(s1.z.perf)],
        err |-> Nil]

\* (variant: the stream-done flag of the previous session survives a Reset)
afterCloseCarrying(cl, up) ==
  IF cl.err # Nil THEN [st |-> [cl.st EXCEPT !.z.err = cl.err], err |-> cl.err]
  ELSE [newReaderSession(rebound([cl.st EXCEPT !.z.err = cl.err]), up)
          EXCEPT !.st.z.streamDone = cl.st.z.streamDone]

\* Reset after `z.err = z.Close()` returned cl
afterClose(cl, up) ==
  IF cl.err # Nil THEN [st |-> [cl.st EXCEPT !.z.err = cl.err], err |-> cl.err]
  ELSE newReaderSession(rebound([cl.st EXCEPT !.z.err = cl.err]), up)

\* Reader.Reset(r): up is what the new upstream r holds
RReset(st, up) == afterClose(RClose(st), up)

\* z.r.Read(z.inputBuf[z.inputBufRead:]): the upstream returns up to uchunk
\* bytes per call and io.EOF once it is empty; when ufail is set its second
\* call fails
upstreamRead(st, calls) ==
  IF st.ufail /\ calls = 1 THEN [nt |-> 0, err |-> ErrUpstream]
  ELSE [nt |-> Min(st.z.inputBufLen - st.z.inputBufRead, Min(st.uchunk, Len(st.up))),
        err |-> IF Len(st.up) = 0 THEN EOF ELSE Nil]

\* (variant: a full input buffer is expanded to twice its length)
receivedDoubling(st, nt) ==
  [st EXCEPT !.z.inputBuf = @ \o Take(st.up, nt),
             !.up = Drop(st.up, nt),
             !.z.inputBufRead = @ + nt,
             !.z.inputBufLen = IF st.z.inputBufRead + nt >= @ THEN @ * 2 ELSE @,
             !.z.perf.ReadTimeNS = Elapsed(@),
             !.z.perf.CopyTimeNS = IF st.z.inputBufRead + nt >= st.z.inputBufLen
                                   THEN Elapsed(@) ELSE @]
\* the fetch loop after nt bytes were transferred: the input buffer is
\* expanded when it is full
received(st, nt) ==
  [st EXCEPT !.z.inputBuf = @ \o Take(st.up, nt),
             !.up = Drop(st.up, nt),
             !.z.inputBufRead = @ + nt,
             !.z.inputBufLen = IF st.z.inputBufRead + nt >= @
                               THEN @ + (st.z.inputBufRead + nt) * 2 ELSE @,
             !.z.perf.ReadTimeNS = Elapsed(@),
             !.z.perf.CopyTimeNS = IF st.z.inputBufRead + nt >= st.z.inputBufLen
                                   THEN Elapsed(@) ELSE @]

\* the fetch loop of Read: reads z.r until it reports an error or io.EOF
RECURSIVE fetch(_, _)
\* ... after the transfer, when z.r.Read returned err
transferred(s1, calls, err) ==
  IF err = Nil THEN fetch(s1, calls + 1)
  ELSE IF err # EOF THEN [st |-> [s1 EXCEPT !.z.err = err], err |-> err]
  ELSE [st |-> [s1 EXCEPT !.z.streamDone = TRUE], err |-> Nil]
\* ... after z.r.Read returned u
upstreamReturned(st, calls, u) == transferred(received(st, u.nt), calls, u.err)
fetch(st, calls) ==
  IF st.z.streamDone THEN [st |-> st, err |-> Nil]
  ELSE upstreamReturned(st, calls, upstreamRead(st, calls))

RLogEntry(st, in, res) ==
  [ off |-> st.z.inputBufOffset, len |-> Len(in), c |-> res.c, out |-> Len(res.out),
    err |-> res.err, cap |-> st.z.outputBufLen, left |-> st.z.outputBufLeft,
    closed |-> st.z.q.closed, data |-> res.out,
    growth |-> st.z.bufferGrowth, produced |-> Len(st.copied) ]

RNextResp(st) ==
  IF st.script = <<>> THEN "all"
  ELSE IF Head(st.script) = "buf" /\ st.z.bufferGrowth >= MaxGrowth THEN "all"
  ELSE Head(st.script)
RPopResp(st) == IF st.script = <<>> THEN st ELSE [st EXCEPT !.script = Tail(@)]

\* the machine with the engine call on `in` that returned res logged, and
\* the time spent in it counted
RLogged(st, in, res) ==
  [RPopResp(st) EXCEPT !.log = Append(@, RLogEntry(st, in, res)),
                       !.z.perf.EngineTimeNS = Elapsed(@)]

\* (variant: a terminal error ends the stream)
ReadErrorAsEOF(err) == EOF
\* the error a Read returns when Decompress fails with a terminal error
ReadError(err) == err

\* (variant: the copy does not advance the window)
drainedInPlace(st, np) ==
  [st EXCEPT !.copied = @ \o SubSeq(st.z.outputBuf, st.z.outputBufOffset + 1,
                                    st.z.outputBufOffset + np),
             !.z.outputBufLeft = @ - np,
             !.z.perf.CopyTimeNS = Elapsed(@)]

\* Read: np bytes are copied from the output window into p
drained(st, np) ==
  [st EXCEPT !.copied = @ \o SubSeq(st.z.outputBuf, st.z.outputBufOffset + 1,
                                    st.z.outputBufOffset + np),
             !.z.outputBufOffset = @ + np,
             !.z.outputBufLeft = @ - np,
             !.z.perf.CopyTimeNS = Elapsed(@)]

\* (variant: the retry is made with the buffer that was too small)
rgrownIdle(st, remainder) == st
\* (variant: the doubled increment is added to the length of the old buffer)
rgrownAdding(st, remainder) ==
  [st EXCEPT !.z.bufferGrowth = @ * 2,
             !.z.outputBuf = <<>>,
             !.z.outputBufLen = @ + st.z.bufferGrowth * 2,
             !.z.perf.CopyTimeNS = Elapsed(@)]
\* Read: the output buffer is replaced by a larger one
rgrown(st, remainder) ==
  [st EXCEPT !.z.bufferGrowth = @ * 2,
             !.z.outputBuf = <<>>,
             !.z.outputBufLen = GrownSize(remainder, st.z.bufferGrowth * 2),
             !.z.perf.CopyTimeNS = Elapsed(@)]

\* Read: the output window after a Decompress that returned res without error
windowed(st, res) ==
  [st EXCEPT !.z.perf.BytesIn = @ + res.c,
             !.z.perf.BytesOut = @ + Len(res.out),
             !.z.inputBufOffset = @ + res.c,
             !.z.outputBuf = res.out,
             !.z.outputBufOffset = 0,
             !.z.outputBufLeft = Len(res.out)]

\* the compressed bytes fetched and not yet consumed:
\* z.inputBuf[z.inputBufOffset:z.inputBufRead]
pending(z) == SubSeq(z.inputBuf, z.inputBufOffset + 1, z.inputBufRead)

\* the loop of Read: plen = len(p), produced = bytes copied into p so far
RECURSIVE readLoop(_, _, _)

\* ... after the Decompress call returned res
afterDecompress(s2, plen, produced, res) ==
  IF res.err = ErrBuffer THEN readLoop(rgrown(s2, plen - produced), plen, produced)
  ELSE IF res.err # Nil
  THEN [st |-> [s2 EXCEPT !.z.err = res.err], n |-> produced, err |-> ReadError(res.err)]
  ELSE readLoop(windowed(s2, res), plen, produced)

\* ... the Decompress call on the input `in`, which returns res
decompressCall(s1, plen, produced, in, res) ==
  afterDecompress(RLogged(s1, in, res), plen, produced, res)

\* ... the Decompress step on the input `in`.  A session closed by Close has
\* had its state freed by qatzip_close: a call that gets past the binding's
\* empty-input check is a use after free.
decompressStep(s1, plen, produced, in) ==
  IF Len(in) > 0 /\ s1.z.q.closed
  THEN IF s1.uaf = "crash"
       THEN [st |-> [s1 EXCEPT !.fault = TRUE], n |-> produced, err |-> Nil]
       ELSE decompressCall(s1, plen, produced, in, Freed)
  ELSE decompressCall(s1, plen, produced, in,
                      Decompress(s1.z.p.Algorithm, in, s1.z.outputBufLen, RNextResp(s1)))

\* (variant: an error of the upstream is not returned)
afterFetchQuiet(f, plen, produced) ==
  IF f.err # Nil THEN [st |-> f.st, n |-> 0, err |-> Nil]
  ELSE decompressStep(f.st, plen, produced, pending(f.st.z))
\* ... after the fetch step returned f
afterFetch(f, plen, produced) ==
  IF f.err # Nil THEN [st |-> f.st, n |-> 0, err |-> f.err]
  ELSE decompressStep(f.st, plen, produced, pending(f.st.z))

readLoop(st, plen, produced) ==
  IF plen - produced <= 0 THEN [st |-> st, n |-> produced, err |-> Nil]
  ELSE IF st.z.outputBufLeft > 0
  THEN \* drain the output window
       readLoop(drained(st, Min(plen - produced, st.z.outputBufLeft)),
                plen, produced + Min(plen - produced, st.z.outputBufLeft))
  ELSE IF st.z.inputBufRead - st.z.inputBufOffset < 0
  THEN [st |-> [st EXCEPT !.z.err = "internal assert"], n |-> 0, err |-> "internal assert"]
  ELSE IF st.z.inputBufRead - st.z.inputBufOffset = 0 /\ st.z.streamDone
  THEN [st |-> st, n |-> produced, err |-> EOF]
  ELSE afterFetch(IF st.z.inputBufRead - st.z.inputBufOffset = 0
                  THEN fetch(st, 0) ELSE [st |-> st, err |-> Nil],
                  plen, produced)

\* Read after the lazy z.Reset(z.r) returned rs
rstarted(rs, plen) ==
  IF rs.err # Nil
  THEN [st |-> [rs.st EXCEPT !.z.err = rs.err], n |-> 0, err |-> rs.err]
  ELSE readLoop([rs.st EXCEPT !.z.err = Nil], plen, 0)

\* Reader.Read(p) with len(p) = plen; up is the Reader's upstream z.r
Read(st, plen) ==
  IF st.z.err # Nil THEN [st |-> st, n |-> 0, err |-> st.z.err]
  ELSE IF st.z.q.nil THEN rstarted(RReset(st, st.up), plen)
  ELSE readLoop(st, plen, 0)

\* ------------------------------------------------------ Reader actions

\* the environment's choices for one Reader call: scripted engine
\* responses where Decompress can be reached, the upstream's chunk size and
\* failure where the stream has not been fetched, the outcome of session
\* start-up and tear-down
REnvs(z, op, plen) ==
  [ script : IF op = "Read" /\ z.err = Nil /\ plen > z.outputBufLeft
                /\ ~(z.streamDone /\ z.inputBufRead = z.inputBufOffset)
             THEN (IF faults THEN RScripts ELSE CalmScripts) ELSE {<<>>},
    uchunk : IF op = "Read" /\ z.err = Nil /\ ~z.streamDone /\ plen > 0
             THEN {1, MaxStream} ELSE {MaxStream},
    ufail : IF faults /\ op = "Read" /\ z.err = Nil /\ ~z.streamDone /\ plen > 0
            THEN BOOLEAN ELSE {FALSE},
    uaf : IF op = "Read" /\ z.q.closed /\ z.err = Nil /\ plen > z.outputBufLeft
          THEN {"fail", "crash"} ELSE {"fail"},
    teardownOK : IF faults /\ op # "Read" /\ ~z.closed /\ z.err = Nil /\ ~z.q.nil
                 THEN BOOLEAN ELSE {TRUE},
    start : {hw} ]

\* compressed streams a Reader may be given that no Writer of the model wrote
Sources ==
  { <<>>,
    Encode(DEFLATE, <<1, 2>>, TRUE),
    Encode(DEFLATE, <<1>>, FALSE) \o Encode(DEFLATE, <<2, 3>>, TRUE),
    Encode(DEFLATE, <<>>, TRUE),
    Encode(LZ4, <<1, 2>>, TRUE),
    <<BAD, 1, FTR(TRUE)>>,
    <<HDR(DEFLATE), 1, 2>>,
    <<HDR(DEFLATE), 1, BAD, FTR(TRUE)>>,
    Encode(DEFLATE, <<1>>, TRUE) \o <<BAD>> }

\* the last Reader call: its name, results, buffer length, and how far the
\* calls so far have gone through a cycle of reuse: "EOF" once a Read has
\* returned io.EOF, "closed" once a Close after that has returned nil,
\* "reused" once a Reset after that has returned nil, "reusedEOF" once a Read
\* after that has returned io.EOF
RNoRet == [op |-> "none", n |-> 0, err |-> Nil, len |-> 0, cycle |-> "first",
           options |-> <<>>, orphaned |-> FALSE]
Cycle(prev, op, err) ==
  IF op = "Read"
  THEN (IF err = EOF THEN (IF prev \in {"reused", "reusedEOF"} THEN "reusedEOF"
                          ELSE IF prev \in {"first", "EOF"} THEN "EOF" ELSE "first")
        ELSE IF err = Nil /\ prev \in {"first", "reused"} THEN prev
        ELSE "first")
  ELSE IF op = "Close"
  THEN (IF err = Nil /\ prev \in {"EOF", "reusedEOF"} THEN "closed" ELSE "first")
  ELSE IF err = Nil /\ prev = "closed" THEN "reused" ELSE "first"

\* the effect of a Reader call on the observation variables
RObserve(x, n) ==
  /\ rd' = x.st.z
  /\ rup' = x.st.up
  /\ rlog' = x.st.log
  /\ rdelivered' = (IF x.st.reset THEN <<>> ELSE rdelivered) \o Take(x.st.copied, n)
  /\ rfault' = x.st.fault

RInit ==
  /\ rd = NewReader
  /\ rlog = <<>>
  /\ rdelivered = <<>>
  /\ rret = RNoRet
  /\ rfault = FALSE
  /\ \/ rmode = "none" /\ rsrc = <<>> /\ rup = <<>>
     \/ rmode = "given" /\ rsrc \in Sources /\ rup = rsrc

\* NewReader(r) on the buffer the Writer wrote, once the Writer has been
\* started and then closed successfully (Example_writerReader).  The Writer
\* is not used again: of its state only the algorithm, the sink and the count
\* of bytes written are kept.
RNewReader ==
  /\ rmode = "none"
  /\ ~wfault
  /\ wret.op = "Close" /\ wret.err = Nil
  /\ ~w.q.nil /\ w.err = Nil
  /\ rmode' = "sink"
  /\ rd' = NewReader
  /\ rsrc' = sink
  /\ rup' = sink
  /\ w' = [NewWriter EXCEPT !.p.Algorithm = w.p.Algorithm]
  /\ wlog' = <<>>
  /\ wconsumed' = <<>>
  /\ wret' = NoRet
  /\ wapplies' = 0
  /\ wsess' = NoSess
  /\ UNCHANGED <<sink, wnext, wfault>>
  /\ UNCHANGED <<rlog, rdelivered, rret, rfault, hw, faults, osenv, qg>>

RApply ==
  /\ rmode # "none"
  /\ ~rfault
  /\ \E options \in ROptionBatches :
     \E a \in {Apply("Reader", rd, options)} :
       /\ rd' = a.z
       /\ rret' = [op |-> "Apply", n |-> 0, err |-> a.err, len |-> 0,
                   cycle |-> rret.cycle,
                   options |-> IF rd.q.nil THEN options ELSE <<>>,
                   orphaned |-> FALSE]
  /\ rlog' = <<>>
  /\ UNCHANGED <<rsrc, rup, rdelivered, rfault, rmode, hw, faults, osenv, qg>>
  /\ UNCHANGED wvars

\* Apply on the Reader with options drawn from every option constructor
RApplyAny ==
  /\ rmode # "none"
  /\ ~rfault
  /\ \E options \in AnyBatches :
     \E a \in {Apply("Reader", rd, options)} :
       /\ rd' = a.z
       /\ rret' = [op |-> "Apply", n |-> 0, err |-> a.err, len |-> 0,
                   cycle |-> rret.cycle,
                   options |-> IF rd.q.nil THEN options ELSE <<>>,
                   orphaned |-> FALSE]
  /\ rlog' = <<>>
  /\ UNCHANGED <<rsrc, rup, rdelivered, rfault, rmode, hw, faults, osenv, qg>>
  /\ UNCHANGED wvars

RRead ==
  /\ rmode # "none"
  /\ ~rfault
  /\ \E plen \in (IF rd.err = Nil THEN 0..MaxRead ELSE {1}) :
     \E env \in REnvs(rd, "Read", plen) :
     \E x \in {Read(RMachine(rd, rup, env), plen)} :
       /\ RObserve(x, x.n)
       /\ rret' = [op |-> "Read", n |-> x.n, err |-> x.err, len |-> plen,
                   cycle |-> Cycle(rret.cycle, "Read", x.err),
                   options |-> <<>>, orphaned |-> x.st.orphaned]
  /\ UNCHANGED <<rsrc, rmode, hw, faults, osenv, qg>>
  /\ UNCHANGED wvars

RCloseCall ==
  /\ rmode # "none"
  /\ ~rfault
  /\ \E env \in REnvs(rd, "Close", 0) :
     \E x \in {RClose(RMachine(rd, rup, env))} :
       /\ RObserve(x, 0)
       /\ rret' = [op |-> "Close", n |-> 0, err |-> x.err, len |-> 0,
                   cycle |-> Cycle(rret.cycle, "Close", x.err),
                   options |-> <<>>, orphaned |-> x.st.orphaned]
  /\ UNCHANGED <<rsrc, rmode, hw, faults, osenv, qg>>
  /\ UNCHANGED wvars

\* Reset(r) with r a fresh io.Reader on any of the compressed streams
RResetCall ==
  /\ rmode # "none"
  /\ ~rfault
  /\ \E src \in (IF rmode = "given" THEN Sources ELSE {rsrc}) :
     \E env \in REnvs(rd, "Reset", 0) :
     \E x \in {RReset(RMachine(rd, rup, env), src)} :
       /\ RObserve(x, 0)
       /\ rsrc' = IF x.st.reset THEN src ELSE rsrc
       /\ rret' = [op |-> "Reset", n |-> 0, err |-> x.err, len |-> 0,
                   cycle |-> Cycle(rret.cycle, "Reset", x.err),
                   options |-> <<>>, orphaned |-> x.st.orphaned]
  /\ UNCHANGED <<rmode, hw, faults, osenv, qg>>
  /\ UNCHANGED wvars

WNext == WApply \/ WWrite \/ WClose \/ WReset
RNext == RApply \/ RRead \/ RCloseCall \/ RResetCall

\* the accelerator becomes available
HwUp ==
  /\ hw # "ok"
  /\ hw' = "ok"
  /\ UNCHANGED <<faults, osenv, qg>>
  /\ UNCHANGED wvars
  /\ UNCHANGED rvars

\* a Writer alone, in an environment that may fail
InitW ==
  /\ osenv = NoEnv /\ qg = NoRun
  /\ WInit /\ RInit /\ rmode = "none"
  /\ hw \in {"ok", "nomem", "nosession"} /\ faults = TRUE
NextW == WNext \/ HwUp
SpecW == InitW /\ [][NextW]_vars

\* a Reader alone on a given stream, in an environment that may fail
InitR ==
  /\ osenv = NoEnv /\ qg = NoRun
  /\ WInit /\ RInit /\ rmode = "given"
  /\ hw \in {"ok", "nomem", "nosession"} /\ faults = TRUE
NextR == RNext \/ HwUp
SpecR == InitR /\ [][NextR]_vars

\* a Writer alone or a Reader alone on a given stream, in an environment
\* that may fail
InitWR ==
  /\ osenv = NoEnv /\ qg = NoRun
  /\ WInit /\ RInit
  /\ hw \in {"ok", "nomem", "nosession"} /\ faults = TRUE
NextWR == WNext \/ RNext \/ HwUp
SpecWR == InitWR /\ [][NextWR]_vars

\* a Reader alone, used again and again on given streams, with an
\* accelerator that works (TestReaderReset)
InitReuse == osenv = NoEnv /\ qg = NoRun /\ WInit /\ RInit /\ rmode = "given" /\ hw = "ok" /\ faults = FALSE
NextReuse == RNext
SpecReuse == InitReuse /\ [][NextReuse]_vars

\* a Writer alone, constructed in any process environment, or a Reader
\* alone: any options are applied, and sessions are started and closed, with
\* an accelerator that works (TestApplyEnvOptions, TestWriterApply)
InitP ==
  /\ osenv \in OsEnvs /\ qg = NoRun
  /\ WInit /\ RInit
  /\ rmode = "given" => (osenv = NoEnv /\ rsrc = Encode(DEFLATE, <<1, 2>>, TRUE))
  /\ hw = "ok" /\ faults = FALSE
NextP == WApplyAny \/ WReset \/ WClose \/ RApplyAny \/ RResetCall \/ RCloseCall
SpecP == InitP /\ [][NextP]_vars

\* an output buffer that is long against the growth step, as the default one
\* is (DefaultBufferLength is 128 times DefaultBufferGrowth)
WideBufLength == 2 * MinBufferLength + 2
WideOptions ==
  << [name |-> "OutputBufLength", v |-> WideBufLength],
     [name |-> "BufferGrowth", v |-> MinBufferLength] >>
\* ... and, for a Reader, the shortest input buffer
RWideOptions == WideOptions \o << [name |-> "InputBufLength", v |-> MinBufferLength] >>
\* a stream whose first member fills that buffer and is followed by another
WideSource ==
  Encode(DEFLATE, Bytes(0, WideBufLength), FALSE)
    \o Encode(DEFLATE, <<WideBufLength + 1>>, TRUE)

\* Apply(OutputBufLengthOption(WideBufLength), BufferGrowthOption(MinBufferLength),
\* InputBufLengthOption(MinBufferLength)) on the Reader
RApplyWide ==
  /\ rmode # "none"
  /\ ~rfault
  /\ \E a \in {Apply("Reader", rd, RWideOptions)} :
       /\ rd' = a.z
       /\ rret' = [op |-> "Apply", n |-> 0, err |-> a.err, len |-> 0,
                   cycle |-> rret.cycle,
                   options |-> IF rd.q.nil THEN RWideOptions ELSE <<>>,
                   orphaned |-> FALSE]
  /\ rlog' = <<>>
  /\ UNCHANGED <<rsrc, rup, rdelivered, rfault, rmode, hw, faults, osenv, qg>>
  /\ UNCHANGED wvars

\* ... and on the Writer
WApplyWide ==
  /\ rmode = "none"
  /\ ~wfault
  /\ wapplies < MaxApplies
  /\ \E a \in {Apply("Writer", w, WideOptions)} :
       /\ w' = a.z
       /\ wret' = [op |-> "Apply", n |-> 0, err |-> a.err, len |-> 0,
                   before |-> w.perf.BytesIn,
                   wasClosed |-> w.closed, wasErr |-> w.err,
                   options |-> IF w.q.nil THEN WideOptions ELSE <<>>,
                   staged |-> wret.staged,
                   orphaned |-> FALSE]
  /\ wlog' = <<>>
  /\ wapplies' = wapplies + 1
  /\ UNCHANGED <<sink, wconsumed, wnext, wfault, wsess, hw, faults, osenv, qg>>
  /\ UNCHANGED rvars

\* a Writer alone, or a Reader alone on a long stream, with a long output
\* buffer or the default one, and an engine that may fail
InitWide ==
  /\ osenv = NoEnv /\ qg = NoRun
  /\ WInit
  /\ rd = NewReader /\ rlog = <<>> /\ rdelivered = <<>> /\ rret = RNoRet /\ rfault = FALSE
  /\ \/ rmode = "none" /\ rsrc = <<>> /\ rup = <<>>
     \/ rmode = "wide" /\ rsrc = WideSource /\ rup = rsrc
  /\ hw = "ok" /\ faults = TRUE
NextWide ==
  \/ WApplyWide \/ WWrite \/ WClose \/ WReset
  \/ RApplyWide \/ RRead \/ RCloseCall \/ RResetCall
SpecWide == InitWide /\ [][NextWide]_vars

\* one Writer session, then a Reader on what it wrote, with an accelerator
\* that works (Example_writerReader)
Init == osenv = NoEnv /\ qg = NoRun /\ WInit /\ RInit /\ rmode = "none" /\ hw = "ok" /\ faults = FALSE
Next == WApply \/ WWrite \/ WClose \/ RNewReader \/ RApply \/ RRead
Spec == Init /\ [][Next]_vars

\* ===================================================================
\* Properties
\* ===================================================================

\* the Writer ran one session, closed by a successful Close, and a Reader
\* with the same algorithm reads what it wrote
RoundTripSetting ==
  /\ rmode = "sink"
  /\ rd.p.Algorithm = w.p.Algorithm

\* C1: round trip.  When the bytes s were written through a Writer in any
\* split into Write calls, with any algorithm and input-buffer mode, and the
\* Writer was closed, a Reader with the same algorithm on the sink's bytes
\* ends with io.EOF, and by then has delivered exactly s.
C1_RoundTrip ==
  (RoundTripSetting /\ rret.op = "Read" /\ rret.err # Nil)
    => (rret.err = EOF /\ rdelivered = Bytes(0, wnext))

\* the last call was a Close that ran to the end of a started session and
\* returned nil
ClosedCleanly ==
  /\ wret.op = "Close" /\ wret.err = Nil
  /\ ~w.q.nil /\ w.err = Nil

\* C2: growth correctness.  When a session ends with a successful Close,
\* the input ranges consumed by the successful Compress calls, in call
\* order, are exactly the bytes passed to Write, each once; and a call that
\* follows an insufficient-buffer signal submits input from the same offset
\* as the call that got the signal.
C2_NoResubmission ==
  /\ ClosedCleanly => wconsumed = Bytes(0, wnext)
  /\ \A i \in 1..(Len(wlog) - 1) :
       wlog[i].err = ErrBuffer => wlog[i + 1].off = wlog[i].off

\* a session of at least three bytes was closed cleanly, and the Close
\* flushed the bounce buffer through an insufficient-buffer signal followed
\* by a partial consumption
C2_Witness ==
  /\ ClosedCleanly
  /\ wnext >= 3
  /\ wconsumed = Bytes(0, wnext)
  /\ Len(wlog) >= 3
  /\ wlog[1].err = ErrBuffer
  /\ wlog[2].err = Nil /\ wlog[2].c = 1

\* a step that is a call of Write / of Close on the Writer
WriteCalled == wret'.op = "Write" /\ UNCHANGED <<hw, faults, osenv, qg>> /\ UNCHANGED rvars
CloseCalled == wret'.op = "Close" /\ UNCHANGED <<hw, faults, osenv, qg>> /\ UNCHANGED rvars

\* C3: sticky error after a failed Write.  Once a Write of the session has
\* failed with error E, every later Write returns (0, E), issues no engine
\* call and writes nothing to the sink, until Reset is called.
C3_StickyWrite ==
  [][ (WriteCalled /\ wsess.failedOp = "Write")
        => (wret'.n = 0 /\ wret'.err = wsess.E /\ wlog' = <<>> /\ sink' = sink) ]_vars

\* C4: sticky error set by Close.  Once a Close of the session has returned
\* error E, every later Write and Close returns E and issues no engine call.
C4_StickyClose ==
  [][ ((WriteCalled \/ CloseCalled) /\ wsess.failedOp = "Close")
        => (wret'.err = wsess.E /\ wlog' = <<>>) ]_vars

\* the Writer is closed: constructed and never started, or closed by a
\* Close that succeeded
AlreadyClosed == w.closed /\ w.err \in {Nil, ErrWriterClosed}

\* C5: Close on a Writer that is already closed returns ErrWriterClosed,
\* issues no engine call and does not panic.
C5_CloseClosed ==
  [][ (CloseCalled /\ AlreadyClosed)
        => (wret'.err = ErrWriterClosed /\ wlog' = <<>> /\ ~wfault') ]_vars

\* C6: a Write on a Writer on which Close has been called, with no Reset
\* since, returns n = 0 and an error, issues no engine call, buffers
\* nothing and writes nothing to the sink.
C6_WriteClosed ==
  [][ (WriteCalled /\ wsess.closeCalled)
        => /\ wret'.n = 0 /\ wret'.err # Nil
           /\ wlog' = <<>> /\ ~wfault'
           /\ w'.bounceBuf = w.bounceBuf
           /\ sink' = sink ]_vars

\* the session was started and only zero-length Writes were made
EmptySession == ~w.closed /\ w.err = Nil /\ wnext = 0

\* number of empty containers (a header directly followed by a footer) in s
Placeholders(s) ==
  Cardinality({i \in 1..(Len(s) - 1) : s[i] \in {HDR(a) : a \in Algorithms}
                                        /\ s[i + 1] \in Footers})

\* C8: empty input.  A Close that ends a session in which only zero-length
\* Writes were made writes the placeholder of the algorithm to the sink (an
\* empty container for DEFLATE and LZ4, nothing for ZSTD), calls Compress
\* not at all and returns nil; a Close on the Writer closed this way writes
\* nothing more; and a Close that finds bytes consumed by the engine or
\* pending in the bounce buffer adds no placeholder.
C8_EmptyInput ==
  [][ CloseCalled =>
        /\ EmptySession =>
             /\ wret'.err = Nil
             /\ wlog' = <<>>
             /\ sink' = sink \o (IF w.p.Algorithm = ZSTD THEN <<>>
                                 ELSE <<HDR(w.p.Algorithm), FTR(TRUE)>>)
        /\ w.closed => sink' = sink
        /\ (w.perf.BytesIn > 0 \/ Len(w.bounceBuf) > 0)
             => Placeholders(sink') = Placeholders(sink) ]_vars

\* an LZ4 session of zero-length Writes was closed: the sink holds the
\* empty LZ4 container and Close returned nil
C8_Witness ==
  /\ wret.op = "Close" /\ wret.err = Nil
  /\ ~w.q.nil /\ w.closed /\ wnext = 0
  /\ w.p.Algorithm = LZ4
  /\ w.perf.BytesIn = 0
  /\ sink = <<HDR(LZ4), FTR(TRUE)>>

\* a step that is a call of Read / of Close on the Reader
ReadCalled == rret'.op = "Read" /\ UNCHANGED <<hw, faults, osenv, qg>> /\ UNCHANGED wvars
RCloseCalled == rret'.op = "Close" /\ UNCHANGED <<hw, faults, osenv, qg>> /\ UNCHANGED wvars

\* no session start has been attempted on the Reader
NeverStarted == rd.q.nil /\ rd.err = Nil

\* C7: Close on a never-started Reader returns nil, however often it is
\* called, makes no engine call and changes nothing in the Reader; a Read
\* on the never-started Reader still starts the session when the
\* accelerator is available.
C7_CloseNeverStarted ==
  [][ /\ (RCloseCalled /\ NeverStarted)
          => (rret'.err = Nil /\ rd' = rd /\ rlog' = <<>> /\ rup' = rup)
      /\ (ReadCalled /\ NeverStarted /\ hw = "ok")
          => (~rd'.q.nil /\ ~rd'.closed) ]_vars

\* Close has returned nil on a Reader that was never started
C7_Witness ==
  /\ rmode = "given"
  /\ rret.op = "Close" /\ rret.err = Nil
  /\ NeverStarted /\ rd.closed

\* C9: zero-byte upstream.  On a Reader whose upstream holds no bytes, a
\* Read with a non-empty buffer that gets as far as the engine returns
\* (0, ErrEmptyBuffer), and every Read after it returns the same.
C9_ZeroByteUpstream ==
  [][ ReadCalled =>
        /\ (rsrc = <<>> /\ rret'.len > 0 /\ rd.err = Nil /\ (rd.q.nil => hw = "ok"))
             => (rret'.n = 0 /\ rret'.err = ErrEmptyBuffer /\ rd'.err = ErrEmptyBuffer)
        /\ rd.err = ErrEmptyBuffer
             => (rret'.n = 0 /\ rret'.err = ErrEmptyBuffer /\ rlog' = <<>>) ]_vars

\* a Read with a non-empty buffer on an empty upstream returned ErrEmptyBuffer
C9_Witness ==
  /\ rmode = "given" /\ rsrc = <<>>
  /\ rret.op = "Read" /\ rret.len > 0
  /\ rret.err = ErrEmptyBuffer /\ rret.n = 0
  /\ Len(rlog) = 1

\* what a compressed stream holds, decoded member by member, and whether
\* all of it is well-formed for algorithm alg
Plain(alg, src) == DecodeMore(alg, src, MaxStream, [c |-> 0, out |-> <<>>, err |-> Nil]).out
WellFormed(alg, src) ==
  DecodeMore(alg, src, MaxStream, [c |-> 0, out |-> <<>>, err |-> Nil]).c = Len(src)

\* C10: corrupt input is never silent.  A Read whose last Decompress call
\* reported an error other than insufficient buffer returns that error,
\* which is neither nil nor io.EOF; and a Read returns io.EOF only when the
\* whole stream was well-formed and all it holds has been delivered.
C10_CorruptNotSilent ==
  (rmode = "given" /\ rret.op = "Read") =>
    /\ (rlog # <<>> /\ rlog[Len(rlog)].err \notin {Nil, ErrBuffer} /\ ~rfault)
         => (rret.err = rlog[Len(rlog)].err /\ rret.err \notin {Nil, EOF})
    /\ rret.err = EOF
         => (WellFormed(rd.p.Algorithm, rsrc) /\ rdelivered = Plain(rd.p.Algorithm, rsrc))

\* a stream with garbage after a well-formed member: the member's content
\* was delivered and then a Read returned ErrData
C10_Witness ==
  /\ rmode = "given"
  /\ rret.op = "Read" /\ rret.err = ErrData
  /\ rlog # <<>> /\ rlog[Len(rlog)].err = ErrData
  /\ rdelivered # <<>>
  /\ ~WellFormed(rd.p.Algorithm, rsrc)
\* C11: the insufficient-buffer condition never reaches the caller.  No
\* call of a Writer or a Reader returns ErrBuffer, neither object stores
\* ErrBuffer as its error, and every engine call that reported ErrBuffer is
\* followed, within the same API call, by a further engine call.
C11_BufferErrorLocal ==
  /\ wret.err # ErrBuffer /\ w.err # ErrBuffer
  /\ rret.err # ErrBuffer /\ rd.err # ErrBuffer
  /\ \A i \in 1..Len(wlog) : wlog[i].err = ErrBuffer => i < Len(wlog)
  /\ \A i \in 1..Len(rlog) : rlog[i].err = ErrBuffer => i < Len(rlog)

\* a Write that got an insufficient-buffer signal from its first Compress
\* call retried and returned nil
C11_Witness ==
  /\ wret.op = "Write" /\ wret.err = Nil /\ wret.n > 0
  /\ Len(wlog) >= 2
  /\ wlog[1].err = ErrBuffer
  /\ wlog[Len(wlog)].err = Nil
  /\ w.err = Nil
\* GetPerf returns all counters equal to zero
AllZero(perf) ==
  /\ ~perf.nil
  /\ perf.BytesIn = 0 /\ perf.BytesOut = 0
  /\ perf.ReadTimeNS = 0 /\ perf.WriteTimeNS = 0
  /\ perf.EngineTimeNS = 0 /\ perf.CopyTimeNS = 0

\* C12: counter reset.  Right after a Reset of a Writer or of a Reader that
\* returned nil, every performance counter of the object is zero.
C12_CounterReset ==
  /\ (wret.op = "Reset" /\ wret.err = Nil /\ ~wfault) => AllZero(w.perf)
  /\ (rret.op = "Reset" /\ rret.err = Nil /\ ~rfault) => AllZero(rd.perf)

\* a Reset returned nil on a Writer whose previous session had consumed bytes
C12_Witness ==
  /\ wret.op = "Reset" /\ wret.err = Nil /\ ~wfault
  /\ wret.before > 0
  /\ AllZero(w.perf)

ResetCalled == wret'.op = "Reset" /\ UNCHANGED <<hw, faults, osenv, qg>> /\ UNCHANGED rvars

\* C13: a Writer Reset whose engine session starts successfully returns nil
\* and leaves the Writer open, with no stored error, an empty bounce buffer
\* and the header flag cleared, whatever state the Writer was in (never
\* started, closed, closed with ErrWriterClosed recorded, sticky error); the
\* Write that follows is accepted: it returns its full length and nil, or it
\* got as far as calling the engine.
C13_ResetClearsError ==
  [][ /\ (ResetCalled /\ hw = "ok") =>
           /\ wret'.err = Nil /\ ~wfault'
           /\ ~w'.closed /\ w'.err = Nil
           /\ w'.bounceBuf = <<>> /\ ~w'.wroteHeader
           /\ w'.q.active
      /\ (wret.op = "Reset" /\ wret.err = Nil /\ ~wfault /\ WriteCalled) =>
           \/ wret'.err = Nil /\ wret'.n = wret'.len
           \/ Len(wlog') > 0 ]_vars

\* a Reset has cleared the ErrWriterClosed that a second Close recorded on a
\* Writer that had consumed input
C13_Witness ==
  /\ wret.op = "Reset" /\ wret.err = Nil /\ ~wfault
  /\ wret.wasClosed /\ wret.wasErr = ErrWriterClosed /\ wret.before > 0
  /\ w.err = Nil /\ ~w.closed /\ w.q.active

RResetCalled == rret'.op = "Reset" /\ UNCHANGED <<hw, faults, osenv, qg>> /\ UNCHANGED wvars

\* the step closed an open, error-free Reader and the tear-down failed
RTeardownFailed == ~rd.closed /\ rd.err = Nil /\ rd'.q.closed /\ rd'.err = ErrFail

\* C14: a Reader Reset made while the engine can start a session returns
\* nil and leaves the Reader open on a fresh active session with no stored
\* error, zero counters, zero offsets and the stream-done flag cleared,
\* whatever state the Reader was in, a failed Read included (set aside the
\* Reset whose tear-down of the open session is what fails).
C14_ReaderResetRestarts ==
  [][ (RResetCalled /\ hw = "ok" /\ ~RTeardownFailed) =>
        /\ rret'.err = Nil /\ rd'.err = Nil
        /\ ~rd'.closed /\ rd'.q.active
        /\ AllZero(rd'.perf)
        /\ rd'.inputBufOffset = 0 /\ rd'.inputBufRead = 0
        /\ rd'.outputBufOffset = 0 /\ rd'.outputBufLeft = 0
        /\ ~rd'.streamDone ]_vars

\* the stream the Reader is on is a non-empty well-formed stream of the
\* Reader's algorithm
ValidSource == rsrc # <<>> /\ WellFormed(rd.p.Algorithm, rsrc)

\* C15: the Reader reuse cycle, with an engine that works.  Reading a valid
\* stream on an open Reader never fails, delivers something whenever asked
\* for something, and ends with io.EOF exactly when the whole content of the
\* current source has been delivered; the Close after io.EOF returns nil and
\* marks the Reader closed; the Reset after that Close returns nil, marks the
\* Reader open and leaves no input, no output, no offset and no stream-done
\* flag of the previous cycle behind.
C15_ReuseCycle ==
  [][ /\ (ReadCalled /\ ValidSource /\ rd.err = Nil /\ (rd.q.nil \/ ~rd.closed)) =>
           /\ rret'.err \in {Nil, EOF}
           /\ rret'.err = Nil => (rret'.len > 0 => rret'.n > 0)
           /\ rret'.err = EOF => rdelivered' = Plain(rd'.p.Algorithm, rsrc')
           /\ rdelivered' = Take(Plain(rd'.p.Algorithm, rsrc'), Len(rdelivered'))
      /\ (RCloseCalled /\ rret.op = "Read" /\ rret.err = EOF /\ ~rd.closed) =>
           /\ rret'.err = Nil /\ rd'.closed
      /\ (RResetCalled /\ rret.cycle = "closed") =>
           /\ rret'.err = Nil /\ ~rd'.closed /\ rd'.q.active
           /\ rup' = rsrc' /\ rdelivered' = <<>>
           /\ rd'.inputBuf = <<>> /\ rd'.inputBufRead = 0 /\ rd'.inputBufOffset = 0
           /\ rd'.outputBufLeft = 0 /\ rd'.outputBufOffset = 0
           /\ ~rd'.streamDone ]_vars

\* a Reader that was read to io.EOF, closed and reset has delivered the whole
\* content of its new source and returned io.EOF again
C15_Witness ==
  /\ rret.op = "Read" /\ rret.err = EOF /\ rret.cycle = "reusedEOF"
  /\ ValidSource
  /\ rdelivered = Plain(rd.p.Algorithm, rsrc) /\ Len(rdelivered) = 3

ApplyCalled == wret'.op = "Apply" /\ UNCHANGED rvars
RApplyCalled == rret'.op = "Apply" /\ UNCHANGED wvars

\* an engine session of the object has been started: it is open, or it was
\* open and has been closed
Started(q) == q.active \/ q.closed

\* C16: once the session of a Writer or a Reader has been started, by the
\* first Write or Read or by Reset, every Apply returns ErrApplyPostInit and
\* changes no field of the parameters (nor anything else of the object).
C16_ImmutableAfterStart ==
  [][ /\ (ApplyCalled /\ Started(w.q)) => (wret'.err = ErrApplyPostInit /\ w' = w)
      /\ (RApplyCalled /\ Started(rd.q)) => (rret'.err = ErrApplyPostInit /\ rd' = rd) ]_vars

\* an Apply on a Writer with an open session, started by a Write that
\* consumed input, was rejected
C16_Witness ==
  /\ wret.op = "Apply" /\ wret.err = ErrApplyPostInit
  /\ w.q.active /\ w.perf.BytesIn > 0 /\ w.p = defaultParams

\* the first option of a batch that an object of this kind does not take
\* (0: it takes them all)
FirstRejected(kind, options) ==
  IF \A i \in 1..Len(options) : Accepted(kind, options[i]) THEN 0
  ELSE CHOOSE k \in 1..Len(options) :
         /\ ~Accepted(kind, options[k])
         /\ \A i \in 1..(k - 1) : Accepted(kind, options[i])

\* the error named after the domain of the option o, or after its misuse
NamedError(kind, o) ==
  IF o.name = "Algorithm" THEN ErrParamAlgorithm
  ELSE IF o.name = "InputBufferMode"
  THEN (IF o.v \in InputBufferModes THEN ErrApplyInvalidType ELSE ErrInputBufferMode)
  ELSE IF o.name = "Level"
  THEN (IF o.v > 0 THEN ErrApplyInvalidType ELSE ErrParamCompressionLevel)
  ELSE IF o.name = "Direction"
  THEN (IF o.v \in Directions THEN ErrParams ELSE ErrParamDirection)
  ELSE IF o.name = "OutputBufLength" THEN ErrParamOutputBufLength
  ELSE IF o.name = "InputBufLength"
  THEN (IF o.v >= MinBufferLength THEN ErrApplyInvalidType ELSE ErrParamInputBufLength)
  ELSE IF o.name = "BounceBufferLength"
  THEN (IF o.v >= MinBounceBufferLength THEN ErrApplyInvalidType
        ELSE ErrParamBounceBufferLength)
  ELSE ErrParamBufferGrowth

\* the parameters p with the field of each of these options set to the
\* option's argument, in order
RECURSIVE SetAll(_, _)
SetAll(p, options) ==
  IF options = <<>> THEN p
  ELSE SetAll([p EXCEPT ![Head(options).name] = Head(options).v], Tail(options))

\* an Apply, made before the session start, that went through these options,
\* the k-th being the first to fail (0: none), turned parameters p into p2
\* and returned err: o1..o(k-1) are applied and nothing else is
NoRollback(kind, options, k, p, p2, err) ==
  IF k = 0 THEN err = Nil /\ p2 = SetAll(p, options)
  ELSE /\ err = NamedError(kind, options[k])
       /\ p2 = SetAll(p, Take(options, k - 1))

\* C17: Apply has no rollback.  An Apply made before the session start
\* returns the error of the first option that fails; the fields set by the
\* options before it keep their new values, and the failing option and the
\* options after it change nothing.  (With no failing option Apply returns
\* nil and every option is applied.)
C17_NoRollback ==
  [][ /\ (ApplyCalled /\ w.q.nil) =>
           NoRollback("Writer", wret'.options,
                      FirstRejected("Writer", wret'.options), w.p, w'.p, wret'.err)
      /\ (RApplyCalled /\ rd.q.nil) =>
           NoRollback("Reader", rret'.options,
                      FirstRejected("Reader", rret'.options), rd.p, rd'.p, rret'.err) ]_vars

\* an Apply(AlgorithmOption(LZ4), CompressionLevelOption(0)) on a new Writer
\* returned the level error and left the algorithm set
C17_Witness ==
  /\ wret.op = "Apply" /\ w.q.nil /\ osenv = NoEnv /\ wapplies = 1
  /\ wret.options = <<[name |-> "Algorithm", v |-> LZ4], [name |-> "Level", v |-> 0]>>
  /\ wret.err = ErrParamCompressionLevel
  /\ w.p = [defaultParams EXCEPT !.Algorithm = LZ4]

\* the parameters p of an object of this kind are in their domains
ParamsInDomain(kind, p) ==
  /\ p.Level > 0
  /\ p.Algorithm \in {DEFLATE, LZ4, ZSTD}
  /\ p.InputBufferMode \in {Reserve, Bounce, Last, NoLast}
  /\ p.InputBufLength >= MinBufferLength
  /\ p.OutputBufLength >= MinBufferLength
  /\ p.BufferGrowth >= MinBufferLength
  /\ p.BounceBufferLength >= MinBounceBufferLength
  /\ p.Direction \in {DirCompress, DirDecompress, DirBoth}
  /\ kind = "Writer" => p.Direction # DirDecompress
  /\ kind = "Reader" => p.Direction # DirCompress

\* the argument of option o is outside the domain of the option
OutOfDomain(o) ==
  IF o.name = "Algorithm" THEN o.v \notin {DEFLATE, LZ4, ZSTD}
  ELSE IF o.name = "InputBufferMode" THEN o.v \notin {Reserve, Bounce, Last, NoLast}
  ELSE IF o.name = "Level" THEN o.v <= 0
  ELSE IF o.name = "Direction" THEN o.v \notin {DirCompress, DirDecompress, DirBoth}
  ELSE IF o.name = "BounceBufferLength" THEN o.v < MinBounceBufferLength
  ELSE o.v < MinBufferLength

\* the error named after the domain of each option
DomainError ==
  [ Algorithm |-> ErrParamAlgorithm, InputBufferMode |-> ErrInputBufferMode,
    Level |-> ErrParamCompressionLevel, Direction |-> ErrParamDirection,
    OutputBufLength |-> ErrParamOutputBufLength,
    InputBufLength |-> ErrParamInputBufLength,
    BounceBufferLength |-> ErrParamBounceBufferLength,
    BufferGrowth |-> ErrParamBufferGrowth ]

\* an Apply that went through these options, the k-th being the first not
\* taken, returned err: an argument out of its domain gets the error of its
\* domain, a direction that is wrong for the object gets ErrParams
RejectedByName(options, k, err) ==
  k > 0 =>
    /\ OutOfDomain(options[k]) => err = DomainError[options[k].name]
    /\ (options[k].name = "Direction" /\ ~OutOfDomain(options[k])) => err = ErrParams

\* C18: the parameters of a Writer and of a Reader stay in their domains
\* whatever Apply calls are made, successful or failed: level > 0, a valid
\* algorithm, a valid input-buffer mode, buffer lengths and growth of at
\* least MinBufferLength, a bounce length of at least MinBounceBufferLength
\* and a direction valid for the object; and an option whose argument is out
\* of its domain is rejected with the error named after that domain, no two
\* options sharing one.
C18_ParameterDomain ==
  /\ ParamsInDomain("Writer", w.p)
  /\ ParamsInDomain("Reader", rd.p)
  /\ wret.op = "Apply" =>
       RejectedByName(wret.options, FirstRejected("Writer", wret.options), wret.err)
  /\ rret.op = "Apply" =>
       RejectedByName(rret.options, FirstRejected("Reader", rret.options), rret.err)
  /\ \A n1, n2 \in DOMAIN DomainError : n1 # n2 => DomainError[n1] # DomainError[n2]

\* after an Apply that set the level, an Apply with a buffer growth below
\* the minimum was rejected with the error of that option
C18_Witness ==
  /\ wret.op = "Apply" /\ wapplies = 2 /\ w.q.nil
  /\ wret.options = <<[name |-> "BufferGrowth", v |-> MinBufferLength - 1]>>
  /\ wret.err = ErrParamBufferGrowth
  /\ w.p.Level = 2 /\ w.p.BufferGrowth = DefaultBufferGrowth
  /\ ParamsInDomain("Writer", w.p)

\* what the environment asks for: an algorithm by one of its names, a level
\* by a positive decimal number
NamedAlgorithm == [deflate |-> DEFLATE, gzip |-> DEFLATE, lz4 |-> LZ4, zstd |-> ZSTD]
DecimalLevel == [str \in {"3"} |-> 3]
\* every variable of the environment is unset or holds a valid value
EnvValid(env) ==
  /\ env.algorithm \in {""} \cup DOMAIN NamedAlgorithm
  /\ env.level \in {""} \cup DOMAIN DecimalLevel

\* staged value, else environment override, else compiled-in default
Precedence(staged, envValue, default) ==
  IF staged # 0 - 1 THEN staged ELSE IF envValue # 0 - 1 THEN envValue ELSE default
EnvAlgorithm(env) ==
  IF env.algorithm = "" THEN 0 - 1 ELSE NamedAlgorithm[env.algorithm]
EnvLevel(env) == IF env.level = "" THEN 0 - 1 ELSE DecimalLevel[env.level]

C20_SessionTeardown ==
  /\ ~wfault =>
       /\ wret.op = "none" => (w.q.nil /\ ~w.q.active)
       /\ ~(wret.orphaned /\ w.q.active)
       /\ wret.op = "Close" => ~w.q.active
       /\ wret.op = "Reset" => (~wret.orphaned /\ (w.q.active => wret.err = Nil))
  /\ ~rfault =>
       /\ rret.op = "none" => (rd.q.nil /\ ~rd.q.active)
       /\ ~(rret.orphaned /\ rd.q.active)
       /\ rret.op = "Close" => ~rd.q.active
       /\ rret.op = "Reset" => (~rret.orphaned /\ (rd.q.active => rret.err = Nil))

\* the Output Window: z.outputBuf[z.outputBufOffset:z.outputBufOffset+z.outputBufLeft]
Window(z) == SubSeq(z.outputBuf, z.outputBufOffset + 1, z.outputBufOffset + z.outputBufLeft)

\* the bytes produced by the successful Decompress calls of a log, in call order
RECURSIVE ProducedBy(_)
ProducedBy(log) ==
  IF log = <<>> THEN <<>>
  ELSE (IF Head(log).err = Nil THEN Head(log).data ELSE <<>>) \o ProducedBy(Tail(log))

\* C21: Reader delivery.  Every Read call extends the bytes delivered in the
\* session, followed by the bytes still in the Output Window, by exactly the
\* bytes its successful Decompress calls produced, in call order (a Read that
\* starts the session starts from nothing), so every produced byte is
\* delivered exactly once; and every Decompress call of the Read, and so every
\* reallocation of the output buffer, is issued with an empty Output Window.
C21_ReaderDelivery ==
  [][(ReadCalled /\ ~rfault') =>
       /\ \A i \in 1..Len(rlog') : rlog'[i].left = 0
       /\ rdelivered' \o Window(rd') =
            (IF rd.q.nil THEN <<>> ELSE rdelivered \o Window(rd)) \o ProducedBy(rlog')
       /\ Len(rdelivered') = Len(rdelivered) + rret'.n \/ rd.q.nil]_vars
\* a Read that delivered the rest of an earlier window and bytes of a
\* Decompress call it issued after the output buffer was reallocated
C21_Witness ==
  /\ rret.op = "Read" /\ rret.n > 0 /\ ~rfault
  /\ Len(rdelivered) > rret.n
  /\ \E i \in 1..Len(rlog) : rlog[i].err = ErrBuffer
  /\ \E i \in 1..Len(rlog) : rlog[i].err = Nil /\ rlog[i].out > 0

C23_InputAccumulator ==
  (~rfault /\ ~rd.q.nil) =>
    /\ 0 <= rd.inputBufOffset
    /\ rd.inputBufOffset <= rd.inputBufRead
    /\ rd.inputBufRead <= rd.inputBufLen
    /\ \A i \in 1..Len(rlog) :
         /\ 0 <= rlog[i].off /\ 0 <= rlog[i].c /\ rlog[i].c <= rlog[i].len
         /\ rlog[i].off + rlog[i].len <= rd.inputBufRead
    /\ rd.err # "internal assert" /\ rret.err # "internal assert"
\* a Read fetched more than the input buffer held at first, and its
\* Decompress call consumed a part of what was fetched
C23_Witness ==
  /\ rret.op = "Read" /\ ~rfault
  /\ rd.inputBufLen > rd.p.InputBufLength
  /\ 0 < rd.inputBufOffset /\ rd.inputBufOffset < rd.inputBufRead

\* C24: end of stream.  A Read that returned io.EOF left the upstream at its
\* end (it has reported io.EOF and holds no more bytes), the Input
\* Accumulator empty (every fetched byte consumed) and the Output Window
\* empty (every produced byte delivered), and io.EOF is not stored as the
\* Reader's error; and a Read with a non-empty buffer never returns (0, nil).
C24_EndOfStream ==
  (rret.op = "Read" /\ ~rfault) =>
    /\ rret.err = EOF =>
         /\ rd.streamDone /\ rup = <<>>
         /\ rd.inputBufRead = rd.inputBufOffset /\ pending(rd) = <<>>
         /\ rd.outputBufLeft = 0 /\ Window(rd) = <<>>
         /\ rd.err = Nil
         /\ rret.len > 0
    /\ rret.len > 0 => ~(rret.n = 0 /\ rret.err = Nil)
\* a Read delivered the last produced bytes and returned io.EOF in one call,
\* from a stream of two members
C24_Witness ==
  /\ rret.op = "Read" /\ ~rfault
  /\ rret.err = EOF /\ rret.n > 0 /\ rret.n < rret.len
  /\ Len(rdelivered) > rret.n

\* the Write is one that bounces the whole of its len bytes: Bounce mode, or
\* Reserve or Last mode with len <= BounceBufferLength
BouncesAll(z, len) ==
  z.InputBufferMode = Bounce
    \/ (z.InputBufferMode \in {Reserve, Last} /\ len <= z.BounceBufferLength)

\* C25: deferred compression of bounced input.  A Write of p that bounces
\* the whole of p, on a Writer that holds no error, issues engine calls only
\* on bytes written before p; when it returns without error (the session
\* started and the flush succeeded) it has submitted every byte bounced
\* before, the bounce buffer holds exactly p, it returns (len(p), nil), and no
\* byte of p has been consumed.  The next Write or Close that returns without
\* error after that has first submitted the bounced bytes to the engine.
C25_DeferredBounce ==
  [][/\ (WriteCalled /\ ~wfault' /\ w.err = Nil /\ BouncesAll(w'.p, wret'.len)) =>
          /\ \A i \in 1..Len(wlog') : wlog'[i].off + wlog'[i].len - 1 <= Base
          /\ wret'.err = Nil =>
               /\ wret'.n = wret'.len
               /\ w'.bounceBuf = Bytes(Base, wret'.len)
               /\ ~w.q.nil => ConsumedBy(wlog') = w.bounceBuf
               /\ \A i \in 1..Len(wconsumed') : wconsumed'[i] <= Base
          /\ wret'.err # Nil => (wret'.n = 0 /\ w'.err = wret'.err)
     /\ ((WriteCalled \/ (CloseCalled /\ ~w.closed))
           /\ ~wfault' /\ w.err = Nil /\ ~w.q.nil /\ wret'.err = Nil) =>
          /\ Take(ConsumedBy(wlog'), Len(w.bounceBuf)) = w.bounceBuf
          /\ \A i \in 1..Len(w.bounceBuf) : \A j \in 1..Len(wconsumed) :
                w.bounceBuf[i] # wconsumed[j]]_vars
\* a Write in Last mode flushed the bytes bounced by the Write before it and
\* bounced its own
C25_Witness ==
  /\ wret.op = "Write" /\ ~wfault /\ wret.err = Nil
  /\ w.p.InputBufferMode = Last
  /\ wret.len > 0 /\ wret.n = wret.len
  /\ w.bounceBuf = Bytes(wnext - wret.len, wret.len)
  /\ Len(wlog) > 0 /\ wconsumed # <<>>

\* the Write is one that Reserve mode splits: len > BounceBufferLength
Splits(z, len) == z.InputBufferMode = Reserve /\ len > z.BounceBufferLength

\* C26: Reserve split.  A Write of p in Reserve mode with len(p) >
\* BounceBufferLength, on a Writer that holds no error and whose session has
\* not been closed, after any earlier Writes, runs to its return; and when it
\* returns without error it returns len(p), the bounce buffer holds exactly
\* the last BounceBufferLength bytes of p, and the engine has consumed during
\* the call exactly the bytes bounced before followed by the prefix
\* p[0 : len(p) - BounceBufferLength].
C26_ReserveSplit ==
  [][(WriteCalled /\ ~wfault /\ w.err = Nil /\ ~w.q.closed /\ Splits(w'.p, wret'.len)) =>
       /\ ~wfault'
       /\ wret'.err = Nil =>
            /\ wret'.n = wret'.len
            /\ w'.bounceBuf = Bytes(Base + wret'.len - w'.p.BounceBufferLength,
                                    w'.p.BounceBufferLength)
            /\ ConsumedBy(wlog') =
                 (IF w.q.nil THEN <<>> ELSE w.bounceBuf)
                   \o Bytes(Base, wret'.len - w'.p.BounceBufferLength)]_vars

\* the last-flag discipline of mode for the engine call logged as e, issued
\* during a Write (inWrite) or during Close (called directly or by Reset)
Disciplined(mode, e, inWrite) ==
  /\ mode = Last => e.last
  /\ (mode = NoLast /\ inWrite) => ~e.last
  /\ mode \in {Reserve, Bounce} => (e.last <=> ~inWrite)

\* C27: last-flag discipline per mode.  Every Compress call a Writer issues
\* has the last flag set in Last mode; has it clear in NoLast mode when
\* issued during Write; and in Reserve and Bounce modes has it set exactly
\* when it is issued during Close.  A Write in NoLast mode that returns
\* without error has had the whole of p consumed and buffers nothing.
C27_LastFlag ==
  [][((WriteCalled \/ CloseCalled \/ ResetCalled) /\ ~wfault') =>
       /\ \A i \in 1..Len(wlog') :
            Disciplined(w'.p.InputBufferMode, wlog'[i], wret'.op = "Write")
       /\ (WriteCalled /\ w'.p.InputBufferMode = NoLast /\ w.err = Nil
             /\ wret'.err = Nil) =>
            /\ w'.bounceBuf = <<>>
            /\ ConsumedBy(wlog') = Bytes(Base, wret'.len)]_vars

\* the bytes produced by the successful Compress calls of a log, in call order
RECURSIVE ProducedOut(_)
ProducedOut(log) ==
  IF log = <<>> THEN <<>>
  ELSE (IF Head(log).err = Nil THEN Head(log).out ELSE <<>>) \o ProducedOut(Tail(log))

\* the placeholder a Close writes for a session in which nothing was written
Placeholder(z, op) ==
  IF op = "Close" /\ ~z.closed /\ z.err = Nil /\ nothingWritten(z)
  THEN EmptyBuffer(z.p.Algorithm) ELSE <<>>

\* the original reading of C28: whatever a Write or Close adds to the sink,
\* when the sink accepts it, is what the successful Compress calls of the
\* call produced
C28_ForwardedOnly ==
  [][((WriteCalled \/ CloseCalled) /\ ~wfault' /\ w'.err # ErrSink) =>
       sink' = sink \o ProducedOut(wlog')]_vars

\* C28: forwarding.  A Write or Close whose writes the sink accepts adds to
\* the sink exactly the bytes produced by its successful Compress calls, in
\* call order (a call that signalled insufficient buffer, or produced
\* nothing, adds nothing), followed, when the Close ends a session in which
\* nothing was written, by the empty-payload placeholder.  When the sink
\* refuses a write, what the calls before the refused one produced has been
\* added and nothing else.
C28_Forwarding ==
  [][((WriteCalled \/ CloseCalled) /\ ~wfault') =>
       /\ w'.err # ErrSink =>
            sink' = sink \o ProducedOut(wlog') \o Placeholder(w, wret'.op)
       /\ w'.err = ErrSink =>
            sink' = sink \o ProducedOut(SubSeq(wlog', 1, Len(wlog') - 1))]_vars
\* a Write forwarded what two Compress calls produced, with an
\* insufficient-buffer signal among its calls
C28_Witness ==
  /\ wret.op = "Write" /\ ~wfault /\ wret.err = Nil
  /\ \E i \in 1..Len(wlog) : wlog[i].err = ErrBuffer
  /\ \E i, j \in 1..Len(wlog) :
       i < j /\ wlog[i].err = Nil /\ wlog[j].err = Nil
         /\ Len(sink) >= Len(wlog[i].out) + Len(wlog[j].out)

\* the Decompress call logged as e signalled insufficient buffer and the
\* call logged as next retried it: same input range, nothing consumed,
\* nothing fetched or delivered in between
Retried(e, next) ==
  /\ e.c = 0 /\ e.out = 0
  /\ next.off = e.off /\ next.len = e.len
  /\ next.produced = e.produced
  /\ next.left = 0

Logs == {wlog, rlog}

RECURSIVE InputLenFor(_, _, _)
InputLenFor(len, read, factor) ==
  IF read >= len THEN InputLenFor(factor * len, read, factor) ELSE len

\* what the fetch loop keeps, whatever the expansion: the bytes fetched are
\* the head of the stream, each at its position; there is room left in the
\* input buffer for the next upstream Read; and the fetch ends only with the
\* end of the stream or an error of the upstream
Fetched ==
  /\ rd.inputBufRead < rd.inputBufLen
  /\ rd.inputBufRead = Len(rd.inputBuf)
  /\ rd.inputBuf \o rup = rsrc
  /\ rd.streamDone => rup = <<>>
  /\ (rd.inputBufRead > 0 /\ rd.err # ErrUpstream) => rd.streamDone

\* the original reading of C31: a full input buffer is expanded to twice its
\* length
C31_InputDoubled ==
  (rmode = "wide" /\ ~rfault /\ ~rd.q.nil) =>
    /\ Fetched
    /\ rd.inputBufLen = InputLenFor(rd.p.InputBufLength, rd.inputBufRead, 2)

\* C31: input buffer growth.  While the Reader fetches from upstream, an
\* input buffer that fills completely is expanded by twice the number of
\* bytes it holds, that is to three times its length; the bytes fetched stay
\* at their positions; the upstream is never handed an empty destination;
\* and the fetch goes on until the upstream reports the end of the stream
\* (or an error).
C31_InputGrowth ==
  (rmode = "wide" /\ ~rfault /\ ~rd.q.nil) =>
    /\ Fetched
    /\ rd.inputBufLen = InputLenFor(rd.p.InputBufLength, rd.inputBufRead, 3)
\* a Read fetched the whole stream into an input buffer that was expanded twice
C31_Witness ==
  /\ rmode = "wide" /\ rret.op = "Read" /\ ~rfault
  /\ rd.streamDone /\ rd.inputBufRead = Len(rsrc)
  /\ rd.inputBufLen = 9 * rd.p.InputBufLength

\* ===================================================================
\* The retry loops, one iteration per step
\* ===================================================================
\* In the specifications above a call is one step.  Here a Write, a Close
\* and a Read are followed through their loops: wret and rret hold the call
\* that is running, the place it has reached (pc), and the locals of its
\* loop; the responses of the engine and the chunk size of the upstream are
\* fixed when the call starts.

LoopEnv(script, uchunk) ==
  [ script |-> script, uchunk |-> uchunk, ufail |-> FALSE, uaf |-> "fail",
    teardownOK |-> TRUE, start |-> hw ]

\* the responses of the engine to the calls of a Write, a Close or a Read
\* that can reach it: the sink accepts what it is given
LoopScripts(reached) == IF reached THEN RScripts ELSE {<<>>}

\* a Writer call that has returned (n, err)
WIdle(op, n, err) ==
  [ op |-> op, pc |-> "idle", buf |-> <<>>, consumed |-> 0, p |-> <<>>, nb |-> 0,
    script |-> <<>>, n |-> n, err |-> err ]
\* a Writer call inside compressWrite(buf), called from flushBounceBuffer
\* (pc = "flush") or from Write (pc = "compress"), with nb bytes of p kept
\* in the bounce buffer
WBusy(op, pc, buf, consumed, p, nb, script) ==
  [ op |-> op, pc |-> pc, buf |-> buf, consumed |-> consumed, p |-> p, nb |-> nb,
    script |-> script, n |-> 0, err |-> Nil ]

\* Write up to the call of flushBounceBuffer: the stored error, the lazy Reset
lazily(rs) ==
  IF rs.err # Nil THEN [st |-> [rs.st EXCEPT !.z.err = rs.err], err |-> rs.err]
  ELSE [st |-> [rs.st EXCEPT !.z.err = Nil], err |-> Nil]
entered(st) ==
  IF st.z.err # Nil THEN [st |-> st, err |-> st.z.err]
  ELSE IF st.z.q.nil THEN lazily(Reset(st, st.sink))
  ELSE [st |-> st, err |-> Nil]

\* Close up to the call of flushBounceBuffer; `flush` tells whether it is reached
closing(we) ==
  IF we.err # Nil
  THEN [st |-> [we.st EXCEPT !.z.err = we.err], err |-> we.err, flush |-> FALSE]
  ELSE [st |-> [we.st EXCEPT !.z.err = we.err, !.z.closed = TRUE,
                             !.z.q = SetLast(we.st.z.q, TRUE)],
        err |-> Nil, flush |-> TRUE]
closeEntered(st) ==
  IF st.z.closed
  THEN [st |-> [st EXCEPT !.z.err = ErrWriterClosed], err |-> ClosedResult(st.z),
        flush |-> FALSE]
  ELSE IF st.z.err # Nil THEN [st |-> st, err |-> st.z.err, flush |-> FALSE]
  ELSE closing(IF nothingWritten(st.z) THEN writeEmptyBuffer(st)
               ELSE [st |-> st, err |-> Nil])

\* one iteration of the loop of compressWrite(buf), `consumed` bytes in:
\* ... after z.w.Write returned sw
sunk(sw, consumed) ==
  IF sw.err # Nil
  THEN [st |-> [sw.st EXCEPT !.z.err = sw.err], consumed |-> consumed, err |-> sw.err]
  ELSE [st |-> sw.st, consumed |-> consumed, err |-> Nil]
\* ... after the Compress call returned res
iterated(st, buf, consumed, res, resp) ==
  IF res.err = ErrBuffer
  THEN [st |-> grown(st, Len(buf) - consumed), consumed |-> consumed, err |-> Nil]
  ELSE IF res.err # Nil
  THEN [st |-> [st EXCEPT !.z.err = res.err], consumed |-> consumed, err |-> res.err]
  ELSE IF Len(res.out) > 0
  THEN sunk(SinkWrite([counted(st, res) EXCEPT !.z.perf.WriteTimeNS = Elapsed(@)],
                      Forwarded(res.out, Len(res.out)), resp = "sink"),
            consumed + res.c)
  ELSE [st |-> counted(st, res), consumed |-> consumed + res.c, err |-> Nil]
\* ... the Compress call, answered as resp says
called(st, buf, consumed, resp) ==
  iterated(PopResp(st), buf, consumed,
           Compress(st.z.p.Algorithm, st.z.q.last, Unconsumed(buf, consumed),
                    st.z.outputBufLen, resp),
           resp)
\* ... the iteration; on a session that Close has freed the call fails
iteration(st, buf, consumed) ==
  IF st.z.q.closed
  THEN [st |-> [st EXCEPT !.z.err = ErrFail], consumed |-> consumed, err |-> ErrFail]
  ELSE called(lastIfMode(st), buf, consumed, NextResp(lastIfMode(st)))

\* the Writer call returns (n, err), or has panicked
WReturns(st, op, n, err) ==
  /\ w' = st.z
  /\ sink' = st.sink
  /\ wfault' = st.fault
  /\ wret' = WIdle(op, n, err)

\* the Writer call goes on in compressWrite(buf)
WGoesOn(st, pc, buf, consumed, p, nb) ==
  /\ w' = st.z
  /\ sink' = st.sink
  /\ wfault' = FALSE
  /\ wret' = WBusy(wret.op, pc, buf, consumed, p, nb, st.script)

\* Apply(InputBufferModeOption(mode)) between two calls
LApply ==
  /\ rmode = "none" /\ wret.pc = "idle" /\ ~wfault
  /\ wapplies < MaxApplies
  /\ \E mode \in InputBufferModes :
     \E a \in {Apply("Writer", w, <<[name |-> "InputBufferMode", v |-> mode]>>)} :
       /\ w' = a.z
       /\ wret' = WIdle("Apply", 0, a.err)
  /\ wapplies' = wapplies + 1
  /\ UNCHANGED <<sink, wlog, wconsumed, wnext, wfault, wsess, hw, faults, osenv, qg>>
  /\ UNCHANGED rvars

\* Write(p) is called and reaches flushBounceBuffer, or returns before it
LWrite ==
  /\ rmode = "none" /\ wret.pc = "idle" /\ ~wfault
  /\ \E len \in 0..Min(MaxWrite, MaxTotal - Base) :
     \E script \in LoopScripts(w.err = Nil /\ (Len(w.bounceBuf) > 0 \/ len > 0)) :
     \E e \in {entered(Machine(w, sink, LoopEnv(script, 1)))} :
       /\ w' = e.st.z
       /\ sink' = e.st.sink
       /\ wnext' = Base + len
       /\ wret' = IF e.err # Nil THEN WIdle("Write", 0, e.err)
                  ELSE WBusy("Write", "flush", e.st.z.bounceBuf, 0, Bytes(Base, len), 0,
                             e.st.script)
  /\ UNCHANGED <<wlog, wconsumed, wfault, wapplies, wsess, hw, faults, osenv, qg>>
  /\ UNCHANGED rvars

\* Close is called and reaches flushBounceBuffer, or returns before it
LClose ==
  /\ rmode = "none" /\ wret.pc = "idle" /\ ~wfault
  /\ \E script \in LoopScripts(w.err = Nil /\ ~w.closed /\ Len(w.bounceBuf) > 0) :
     \E e \in {closeEntered(Machine(w, sink, LoopEnv(script, 1)))} :
       /\ w' = e.st.z
       /\ sink' = e.st.sink
       /\ wret' = IF e.flush
                  THEN WBusy("Close", "flush", e.st.z.bounceBuf, 0, <<>>, 0, e.st.script)
                  ELSE WIdle("Close", 0, e.err)
  /\ UNCHANGED <<wlog, wconsumed, wnext, wfault, wapplies, wsess, hw, faults, osenv, qg>>
  /\ UNCHANGED rvars

\* the running call seen as a machine
WRunning == Machine(w, sink, LoopEnv(wret.script, 1))

\* one iteration of the loop of compressWrite; an error ends the call:
\* Write returns it, Close closes the session and returns it
LIterate ==
  /\ rmode = "none" /\ wret.pc \in {"flush", "compress"}
  /\ Len(wret.buf) - wret.consumed > 0
  /\ \E i \in {iteration(WRunning, wret.buf, wret.consumed)} :
       IF i.err = Nil
       THEN WGoesOn(i.st, wret.pc, wret.buf, i.consumed, wret.p, wret.nb)
       ELSE IF wret.op = "Close"
       THEN WReturns([i.st EXCEPT !.z.q = QzClose(i.st.z.q, TRUE).q], "Close", 0, i.err)
       ELSE WReturns(i.st, "Write",
                     IF wret.pc = "flush" THEN 0 ELSE i.consumed + wret.nb, i.err)
  /\ UNCHANGED <<wlog, wconsumed, wnext, wapplies, wsess, hw, faults, osenv, qg>>
  /\ UNCHANGED rvars

\* Write after the flush, when p is not kept whole: compressWrite is
\* called on p, or on p without its reserved tail
LCompress(s1, p) ==
  IF s1.z.p.InputBufferMode = Reserve
  THEN IF s1.z.p.BounceBufferLength > s1.z.bounceCap
       THEN WReturns([s1 EXCEPT !.fault = TRUE], "Write", 0, Nil)
       ELSE WGoesOn([s1 EXCEPT !.z.bounceBuf = Drop(p, Len(p) - s1.z.p.BounceBufferLength),
                               !.z.perf.CopyTimeNS = Elapsed(@)],
                    "compress", Take(p, Len(p) - s1.z.p.BounceBufferLength), 0, p,
                    s1.z.p.BounceBufferLength)
  ELSE WGoesOn(s1, "compress", p, 0, p, 0)

\* Write after the flush: p is kept in the bounce buffer, or compressed
LBuffer(s1, p, b) ==
  IF s1.z.p.InputBufferMode # NoLast
     /\ (s1.z.p.InputBufferMode = Bounce \/ Len(p) <= s1.z.p.BounceBufferLength)
  THEN WReturns(b.st, "Write", b.n, b.err)
  ELSE LCompress(s1, p)

\* the loop of compressWrite has consumed its input
LLeave ==
  /\ rmode = "none" /\ wret.pc \in {"flush", "compress"}
  /\ Len(wret.buf) - wret.consumed <= 0
  /\ IF wret.pc = "compress"
     THEN WReturns(WRunning, "Write", wret.consumed + wret.nb, Nil)
     ELSE IF wret.op = "Close"
     THEN \E fl \in {[st |-> [WRunning EXCEPT !.z.bounceBuf = <<>>], err |-> Nil]} :
          \E c \in {lastFlushed(fl)} : WReturns(c.st, "Close", 0, c.err)
     ELSE \E s1 \in {[WRunning EXCEPT !.z.bounceBuf = <<>>]} :
          \E b \in {bounceAll(s1, wret.p,
                              IF Len(wret.p) > Len(s1.z.bounceBuf) THEN Len(wret.p)
                              ELSE s1.z.bounceCap)} :
            LBuffer(s1, wret.p, b)
  /\ UNCHANGED <<wlog, wconsumed, wnext, wapplies, wsess, hw, faults, osenv, qg>>
  /\ UNCHANGED rvars

\* a Reader call that has returned (n, err) for a buffer of len bytes
RIdle(op, n, err, len) ==
  [ op |-> op, pc |-> "idle", len |-> len, produced |-> 0, script |-> <<>>,
    uchunk |-> 1, n |-> n, err |-> err ]
\* a Read at the top of its loop (pc = "loop"), in the fetch loop ("fetch"),
\* or before the Decompress call ("decompress"), with `produced` bytes of p filled
RBusy(pc, len, produced, script, uchunk) ==
  [ op |-> "Read", pc |-> pc, len |-> len, produced |-> produced, script |-> script,
    uchunk |-> uchunk, n |-> 0, err |-> Nil ]

\* Read up to its loop: the stored error, the lazy Reset
rentered(st) ==
  IF st.z.err # Nil THEN [st |-> st, err |-> st.z.err]
  ELSE IF st.z.q.nil THEN lazily(RReset(st, st.up))
  ELSE [st |-> st, err |-> Nil]

\* the running Read seen as a machine
RRunning == RMachine(rd, rup, LoopEnv(rret.script, rret.uchunk))

\* the Read returns (n, err)
RReturns(st, n, err) ==
  /\ rd' = st.z
  /\ rup' = st.up
  /\ rdelivered' = rdelivered \o st.copied
  /\ rret' = RIdle("Read", n, err, rret.len)

\* the Read goes on at pc
RGoesOn(st, pc, produced) ==
  /\ rd' = st.z
  /\ rup' = st.up
  /\ rdelivered' = rdelivered \o st.copied
  /\ rret' = RBusy(pc, rret.len, produced, st.script, rret.uchunk)

\* Read(p) is called and reaches its loop, or returns before it
LRead ==
  /\ rmode # "none" /\ rret.pc = "idle" /\ ~rfault
  /\ \E plen \in 0..MaxRead :
     \E script \in LoopScripts(rd.err = Nil /\ plen > rd.outputBufLeft
                                 /\ ~(rd.streamDone /\ rd.inputBufRead = rd.inputBufOffset)) :
     \E uchunk \in (IF rd.err = Nil /\ ~rd.streamDone /\ plen > 0 THEN {1, MaxStream}
                    ELSE {MaxStream}) :
     \E e \in {rentered(RMachine(rd, rup, LoopEnv(script, uchunk)))} :
       /\ rd' = e.st.z
       /\ rup' = e.st.up
       /\ rret' = IF e.err # Nil THEN RIdle("Read", 0, e.err, plen)
                  ELSE RBusy("loop", plen, 0, script, uchunk)
  /\ UNCHANGED <<rsrc, rlog, rdelivered, rfault, rmode, hw, faults, osenv, qg>>
  /\ UNCHANGED wvars

\* the top of the loop of Read: return, drain the output window, or go for
\* more input
LTurn ==
  /\ rmode # "none" /\ rret.pc = "loop"
  /\ IF rret.len - rret.produced <= 0 THEN RReturns(RRunning, rret.produced, Nil)
     ELSE IF rd.outputBufLeft > 0
     THEN RGoesOn(drained(RRunning, Min(rret.len - rret.produced, rd.outputBufLeft)),
                  "loop", rret.produced + Min(rret.len - rret.produced, rd.outputBufLeft))
     ELSE IF rd.inputBufRead - rd.inputBufOffset < 0
     THEN RReturns([RRunning EXCEPT !.z.err = "internal assert"], 0, "internal assert")
     ELSE IF rd.inputBufRead - rd.inputBufOffset = 0 /\ rd.streamDone
     THEN RReturns(RRunning, rret.produced, EOF)
     ELSE RGoesOn(RRunning,
                  IF rd.inputBufRead - rd.inputBufOffset = 0 THEN "fetch" ELSE "decompress",
                  rret.produced)
  /\ UNCHANGED <<rsrc, rlog, rfault, rmode, hw, faults, osenv, qg>>
  /\ UNCHANGED wvars

\* one iteration of the fetch loop: z.r.Read, the transfer, the expansion
LFetch ==
  /\ rmode # "none" /\ rret.pc = "fetch"
  /\ \E u \in {upstreamRead(RRunning, 0)} :
     \E s1 \in {received(RRunning, u.nt)} :
       IF u.err = Nil THEN RGoesOn(s1, "fetch", rret.produced)
       ELSE IF u.err # EOF THEN RReturns([s1 EXCEPT !.z.err = u.err], 0, u.err)
       ELSE RGoesOn([s1 EXCEPT !.z.streamDone = TRUE], "decompress", rret.produced)
  /\ UNCHANGED <<rsrc, rlog, rfault, rmode, hw, faults, osenv, qg>>
  /\ UNCHANGED wvars

\* the Decompress call of one iteration and what follows it
LDecompress ==
  /\ rmode # "none" /\ rret.pc = "decompress"
  /\ \E res \in {IF Len(pending(rd)) > 0 /\ rd.q.closed THEN Freed
                 ELSE Decompress(rd.p.Algorithm, pending(rd), rd.outputBufLen,
                                 RNextResp(RRunning))} :
     \E s2 \in {[RPopResp(RRunning) EXCEPT !.z.perf.EngineTimeNS = Elapsed(@)]} :
       IF res.err = ErrBuffer
       THEN RGoesOn(rgrown(s2, rret.len - rret.produced), "loop", rret.produced)
       ELSE IF res.err # Nil
       THEN RReturns([s2 EXCEPT !.z.err = res.err], rret.produced, ReadError(res.err))
       ELSE RGoesOn(windowed(s2, res), "loop", rret.produced)
  /\ UNCHANGED <<rsrc, rlog, rfault, rmode, hw, faults, osenv, qg>>
  /\ UNCHANGED wvars

\* a Writer alone, or a Reader alone on a stream from elsewhere, followed
\* through the loops of their calls
InitLoop ==
  /\ osenv = NoEnv /\ qg = NoRun /\ hw = "ok" /\ faults = TRUE
  /\ w = NewWriterIn(osenv) /\ sink = <<>> /\ wlog = <<>> /\ wconsumed = <<>>
  /\ wnext = 0 /\ wfault = FALSE /\ wapplies = 0 /\ wsess = NoSess
  /\ wret = WIdle("none", 0, Nil)
  /\ rd = NewReader /\ rlog = <<>> /\ rdelivered = <<>> /\ rfault = FALSE
  /\ rret = RIdle("none", 0, Nil, 0)
  /\ \/ rmode = "none" /\ rsrc = <<>> /\ rup = <<>>
     \/ rmode = "given" /\ rsrc \in Sources \cup {WideSource} /\ rup = rsrc

NextLoop ==
  \/ LApply \/ LWrite \/ LClose \/ LIterate \/ LLeave
  \/ LRead \/ LTurn \/ LFetch \/ LDecompress

\* a call that has started goes on: the code of a call runs to its end
\* unless one of its loops does not end
SpecLoop ==
  /\ InitLoop /\ [][NextLoop]_vars
  /\ WF_vars(LIterate \/ LLeave)
  /\ WF_vars(LTurn \/ LFetch \/ LDecompress)

\* C32: with an engine that consumes input on every successful call and
\* signals an insufficient buffer only below a finite size, an upstream
\* that reaches its end and a sink that accepts writes or refuses them,
\* every Write, Close and Read that is called returns, and a Read returns
\* with its buffer filled or with an error, io.EOF at the end of the stream
C32_Termination ==
  /\ (wret.pc # "idle") ~> (wret.pc = "idle")
  /\ (rret.pc # "idle") ~> (rret.pc = "idle")
  /\ [](rret.op = "Read" /\ rret.pc = "idle" => rret.n = rret.len \/ rret.err # Nil)
\* a Read that had to retry with a larger output buffer has returned with
\* its buffer filled
C32_Witness ==
  /\ rret.op = "Read" /\ rret.pc = "idle"
  /\ rret.len > 0 /\ rret.n = rret.len /\ rret.err = Nil
  /\ rd.bufferGrowth > rd.p.BufferGrowth

\* ===================================================================
\* Two stream objects side by side
\* ===================================================================

\* the stream of the Reader that runs beside the Writer
ApartSource == Encode(DEFLATE, <<1>>, FALSE) \o Encode(DEFLATE, <<2, 3>>, TRUE)

\* an engine, a sink and an upstream that do what they are asked
Calm == [ script |-> <<>>, uchunk |-> MaxStream, ufail |-> FALSE, uaf |-> "fail",
          teardownOK |-> TRUE, start |-> hw ]

\* Write on the Writer
TWrite ==
  /\ rmode = "apart" /\ ~wfault
  /\ \E len \in (IF w.err = Nil THEN 0..Min(MaxWrite, MaxTotal - Base) ELSE {1}) :
     \E r \in {Write(Machine(w, sink, Calm), Bytes(Base, len))} :
       /\ Observe(r)
       /\ wconsumed' = (IF r.st.reset THEN <<>> ELSE wconsumed) \o ConsumedBy(r.st.log)
       /\ wnext' = IF w.err = Nil THEN Base + len ELSE wnext
       /\ wret' = [NoRet EXCEPT !.op = "Write", !.n = r.n, !.err = r.err, !.len = len,
                                !.before = w.perf.BytesIn, !.wasClosed = w.closed,
                                !.wasErr = w.err, !.staged = wret.staged,
                                !.orphaned = r.st.orphaned]
       /\ wsess' = Noted(IF r.st.reset THEN NoSess ELSE wsess, "Write", r.err)
  /\ UNCHANGED <<wapplies, hw, faults, osenv, qg>>
  /\ UNCHANGED rvars

\* Close on the Writer
TClose ==
  /\ rmode = "apart" /\ ~wfault
  /\ \E r \in {Close(Machine(w, sink, Calm))} :
       /\ Observe(r)
       /\ wconsumed' = wconsumed \o ConsumedBy(r.st.log)
       /\ wret' = [NoRet EXCEPT !.op = "Close", !.err = r.err,
                                !.before = w.perf.BytesIn, !.wasClosed = w.closed,
                                !.wasErr = w.err, !.staged = wret.staged,
                                !.orphaned = r.st.orphaned]
       /\ wsess' = Noted([wsess EXCEPT !.closeCalled = TRUE], "Close", r.err)
  /\ UNCHANGED <<wnext, wapplies, hw, faults, osenv, qg>>
  /\ UNCHANGED rvars

\* Read on the Reader
TRead ==
  /\ rmode = "apart" /\ ~rfault
  /\ \E plen \in (IF rd.err = Nil THEN 0..MaxRead ELSE {1}) :
     \E x \in {Read(RMachine(rd, rup, Calm), plen)} :
       /\ RObserve(x, x.n)
       /\ rret' = [RNoRet EXCEPT !.op = "Read", !.n = x.n, !.err = x.err, !.len = plen,
                                 !.cycle = Cycle(rret.cycle, "Read", x.err),
                                 !.orphaned = x.st.orphaned]
  /\ UNCHANGED <<rsrc, rmode, hw, faults, osenv, qg>>
  /\ UNCHANGED wvars

\* (variant: the Reader and the Writer hold one engine session, which the
\* Reader's Close closes)
TRCloseShared ==
  /\ rmode = "apart" /\ ~rfault
  /\ \E x \in {RClose(RMachine(rd, rup, Calm))} :
       /\ RObserve(x, 0)
       /\ rret' = [RNoRet EXCEPT !.op = "Close", !.err = x.err,
                                 !.cycle = Cycle(rret.cycle, "Close", x.err),
                                 !.orphaned = x.st.orphaned]
       /\ w' = [w EXCEPT !.q = IF w.q.nil THEN w.q ELSE x.st.z.q]
  /\ UNCHANGED <<rsrc, rmode, hw, faults, osenv, qg>>
  /\ UNCHANGED <<sink, wlog, wconsumed, wnext, wret, wfault, wapplies, wsess>>
\* Close on the Reader
TRClose ==
  /\ rmode = "apart" /\ ~rfault
  /\ \E x \in {RClose(RMachine(rd, rup, Calm))} :
       /\ RObserve(x, 0)
       /\ rret' = [RNoRet EXCEPT !.op = "Close", !.err = x.err,
                                 !.cycle = Cycle(rret.cycle, "Close", x.err),
                                 !.orphaned = x.st.orphaned]
  /\ UNCHANGED <<rsrc, rmode, hw, faults, osenv, qg>>
  /\ UNCHANGED wvars

\* a Writer on its sink and a Reader on its own stream, each with its own
\* session; their calls are made in any order
InitTwo ==
  /\ osenv = NoEnv /\ qg = NoRun /\ hw = "ok" /\ faults = FALSE
  /\ WInit
  /\ rd = NewReader /\ rlog = <<>> /\ rdelivered = <<>> /\ rret = RNoRet /\ rfault = FALSE
  /\ rmode = "apart" /\ rsrc = ApartSource /\ rup = rsrc
NextTwo == TWrite \/ TClose \/ TRead \/ TRClose
SpecTwo == InitTwo /\ [][NextTwo]_vars

\* the calls of a Writer alone, and of a Reader alone
WCalls == WWrite \/ WClose
RCalls == RRead \/ RCloseCall

C34_NoCallOnClosed ==
  /\ \A i \in 1..Len(wlog) : ~(wlog[i].closed /\ wlog[i].len > 0)
  /\ \A i \in 1..Len(rlog) : ~(rlog[i].closed /\ rlog[i].len > 0)

\* C35: a Write on a session that is not closed never faults on the bounce
\* buffer: every reslice stays within the capacity of the buffer, and what
\* the buffer holds after the call fits its capacity
C35_BounceInBounds ==
  [][(WriteCalled /\ ~w.q.closed) =>
       (~wfault' /\ Len(w'.bounceBuf) <= w'.bounceCap)]_vars

\* C36: stream finalization.  When Close returns nil on a Writer in Reserve
\* or Bounce mode whose session accepted at least one byte, the final
\* Compress call of the session had the last flag set.  In these modes a
\* Compress call issued by a Write has the flag clear, so the final call must
\* be one that this Close issues.
C36_Finalized ==
  [][(CloseCalled /\ ~w.closed /\ ~w.q.nil /\ w.err = Nil
        /\ w.p.InputBufferMode \in {Reserve, Bounce}
        /\ wnext >= 1 /\ wret'.err = Nil /\ ~wfault') =>
       (Len(wlog') > 0 /\ wlog'[Len(wlog')].last /\ wlog'[Len(wlog')].err = Nil)]_vars

\* C37: Write count.  A Write never reports more than len(p) bytes.  A Write
\* on a Writer that has not been closed, when it returns a nil error, returns
\* n = len(p), and every byte of p - after the bytes that were waiting in the
\* bounce buffer - has been consumed by the engine or is held in the bounce
\* buffer.
C37_WriteCount ==
  [][(WriteCalled /\ ~wfault') =>
       /\ wret'.n <= wret'.len
       /\ (wret'.err = Nil /\ (w.q.nil \/ ~w.closed)) =>
            /\ wret'.n = wret'.len
            /\ ConsumedBy(wlog') \o w'.bounceBuf =
                 (IF w.q.nil THEN <<>> ELSE w.bounceBuf) \o Bytes(Base, wret'.len)]_vars
\* a Write in Reserve mode returned nil with a part of p consumed by the
\* engine and the rest held in the bounce buffer
C37_Witness ==
  /\ wret.op = "Write" /\ wret.err = Nil /\ ~wfault /\ ~wret.wasClosed
  /\ w.p.InputBufferMode = Reserve
  /\ wret.n = wret.len /\ wret.len > Len(w.bounceBuf) /\ Len(w.bounceBuf) > 0
  /\ Len(ConsumedBy(wlog)) > 0

\* Writer.GetPerf / Reader.GetPerf: `return *z.perf`, a run-time panic
\* when z.perf is nil
GetPerf(z) == [fault |-> z.perf.nil, perf |-> z.perf]

\* C38: GetPerf can be called in every state of a Writer or a Reader,
\* started or not, whatever its Reset returned, without faulting
C38_GetPerfSafe ==
  /\ ~GetPerf(w).fault
  /\ ~GetPerf(rd).fault

\* ===================================================================
\* qgzip: main and its workers (cmd/qgzip/qgzip.go)
\* ===================================================================

\* files on the command line, and the value of -loop
MaxFiles == 2
MaxLoops == 2

\* (variant: the error channel has room for one error)
CapacityOne(files) == 1
\* main: the capacity nch of errch, one slot per file and one for stdin
Capacity(files) == IF files > 0 THEN files ELSE 1

\* the doWork calls of one iteration: one per file, or one for stdin
Workers(files) == 1..(IF files > 0 THEN files ELSE 1)

\* main arrives at its work loop: errch is made, nothing has run
QStartRun(parallel, files, loops) ==
  [ pc |-> "test", parallel |-> parallel, files |-> files, loops |-> loops, i |-> 1,
    wg |-> 0, errch |-> <<>>, cap |-> Capacity(files), open |-> TRUE,
    work |-> [k \in Workers(files) |-> "idle"],
    sent |-> [k \in Workers(files) |-> 0],
    reported |-> FALSE, exit |-> 0 ]

\* doWork is started as a goroutine: with -parallel, for a file of the list
Go == qg.parallel /\ qg.files > 0

QOthers ==
  /\ UNCHANGED <<hw, faults, osenv>>
  /\ UNCHANGED wvars
  /\ UNCHANGED rvars

\* main: `for ; *loops > 0; *loops--`
QTest ==
  /\ qg.pc = "test"
  /\ qg' = IF qg.loops > 0
           THEN [qg EXCEPT !.pc = "start", !.i = 1,
                           !.work = [k \in Workers(qg.files) |-> "idle"],
                           !.sent = [k \in Workers(qg.files) |-> 0]]
           ELSE [qg EXCEPT !.pc = "close"]
  /\ QOthers

\* main: wg.Add(1) and the next doWork, started as a goroutine or called
QStart ==
  /\ qg.pc = "start"
  /\ qg' = IF qg.i \in Workers(qg.files)
           THEN [qg EXCEPT !.wg = @ + 1, !.work[qg.i] = "running",
                           !.i = IF Go THEN @ + 1 ELSE @,
                           !.pc = IF Go THEN "start" ELSE "call"]
           ELSE [qg EXCEPT !.pc = "wait"]
  /\ QOthers

\* main: the doWork it called has returned
QCalled ==
  /\ qg.pc = "call" /\ qg.work[qg.i] = "done"
  /\ qg' = [qg EXCEPT !.pc = "start", !.i = @ + 1]
  /\ QOthers

\* doWork k gets to one of its `errch <- ...; return`, or to its end
QWork(k) ==
  /\ qg.pc # "none" /\ k \in Workers(qg.files) /\ qg.work[k] = "running"
  /\ \E failed \in BOOLEAN :
       qg' = [qg EXCEPT !.work[k] = IF failed THEN "sending" ELSE "returning"]
  /\ QOthers

\* doWork k: the send `errch <- err` goes through when the channel has
\* room, and panics when the channel is closed
QSend(k) ==
  /\ qg.pc # "none" /\ k \in Workers(qg.files) /\ qg.work[k] = "sending"
  /\ ~qg.open \/ Len(qg.errch) < qg.cap
  /\ qg' = IF ~qg.open THEN [qg EXCEPT !.work[k] = "panic"]
           ELSE [qg EXCEPT !.errch = Append(@, k), !.sent[k] = @ + 1,
                           !.reported = TRUE, !.work[k] = "returning"]
  /\ QOthers

\* doWork k returns: the deferred wg.Done()
QReturn(k) ==
  /\ qg.pc # "none" /\ k \in Workers(qg.files) /\ qg.work[k] = "returning"
  /\ qg' = [qg EXCEPT !.wg = @ - 1, !.work[k] = "done"]
  /\ QOthers

\* main: wg.Wait() returns
QWait ==
  /\ qg.pc = "wait" /\ qg.wg = 0
  /\ qg' = [qg EXCEPT !.pc = "drain"]
  /\ QOthers

\* main: one turn of the select loop: an error is received, printed and
\* makes the exit code 1; or the channel is empty and the iteration ends
QDrain ==
  /\ qg.pc = "drain"
  /\ qg' = IF qg.errch # <<>>
           THEN [qg EXCEPT !.errch = Tail(@), !.exit = 1]
           ELSE [qg EXCEPT !.pc = "test", !.loops = @ - 1]
  /\ QOthers

\* main: close(errch), and the deferred os.Exit(errExitCode)
QClose ==
  /\ qg.pc = "close"
  /\ qg' = [qg EXCEPT !.open = FALSE, !.pc = "exited"]
  /\ QOthers

\* qgzip from the work loop on, sequential or parallel, on any number of
\* files, for any number of iterations
InitQ ==
  /\ osenv = NoEnv /\ hw = "ok" /\ faults = FALSE
  /\ WInit /\ RInit /\ rmode = "none"
  /\ \E parallel \in BOOLEAN, files \in 0..MaxFiles, loops \in 0..MaxLoops :
       qg = QStartRun(parallel, files, loops)
NextQ ==
  \/ QTest \/ QStart \/ QCalled \/ QWait \/ QDrain \/ QClose
  \/ \E k \in 1..MaxFiles : QWork(k) \/ QSend(k) \/ QReturn(k)
\* main and the goroutines it started run on: whatever can take a step
\* eventually does
SpecQ == InitQ /\ [][NextQ]_vars /\ WF_vars(NextQ)

\* what holds at every moment of a run of qgzip: a doWork has sent at most
\* one error; a doWork that is at a send finds the channel open and with
\* room; main drains, and closes the channel, only when every doWork of the
\* iteration has returned; and when the process exits, its exit code is 1 if
\* a doWork has reported an error and 0 if none has
Coordinated ==
  /\ \A k \in Workers(qg.files) :
       /\ qg.sent[k] <= 1
       /\ qg.work[k] # "panic"
       /\ qg.work[k] = "sending" => (qg.open /\ Len(qg.errch) < qg.cap)
       /\ qg.pc \in {"drain", "test", "close", "exited"} => qg.work[k] \in {"idle", "done"}
  /\ qg.pc = "exited" => (qg.exit = 1 <=> qg.reported)
  /\ qg.exit \in {0, 1}

====
